---- MODULE Spec2Model ----
(***************************************************************************)
(* Model of the conversational FSM orchestrator of eventbus-fsm:           *)
(* FSMOrchestrator (flow.ts), SessionManager (flow-parser.ts) and the     *)
(* session endpoints (api-routes.ts), for ONE session.                     *)
(*                                                                         *)
(* The shared store (Redis) is the variables state, flowKey, seq, log,     *)
(* lock and the pub/sub inboxes.  Every asynchronous call chain of the     *)
(* server (a POST /sessions request, a processUserInput call, a            *)
(* setTimeout callback, a tool worker) is a task.  A task's todo is its    *)
(* continuation: the store commands and awaits it still has to perform.    *)
(* One step of a task is one awaited command taking effect in the store    *)
(* followed by the synchronous JavaScript that runs until the next await.  *)
(* Tasks may run in different server processes, so their commands reach    *)
(* the store in any order.                                                 *)
(***************************************************************************)
EXTENDS Integers, Sequences, FiniteSets, TLC

VARIABLES
    state,      \* state:call:S  : <<>> (absent) or <<SessionState>>
    flowKey,    \* flow:S        : "" (absent) or the name of the stored flow config
    seq,        \* call:S        : the INCR counter
    log,        \* stream:call:S : the entries in stream order
    lock,       \* lock:sess_S   : 0 (absent) or the holder's lock value
    tasks,      \* the asynchronous call chains, by task number
    expiries,   \* how many times the lock lease (PX 10000) has run out
    registry,   \* toolRegistry.get("T"): the kind of worker registered
    subs,       \* the observers subscribed to pub:call:S
    inbox,      \* per observer: the events it has received, in order
    opc,        \* per observer: where it is in its protocol
    connections,  \* WebSocketConnectionManager.connections: session -> set of sockets
    subscribers,  \* WebSocketConnectionManager.subscribers: session -> subscriber
    sockets,      \* the WebSockets handed to handleConnection, by number
    channels,     \* per Redis subscriber ever opened: the session of its channel
    starting      \* the addConnection calls awaiting startSessionSubscription

vars == <<state, flowKey, seq, log, lock, tasks, expiries, registry, subs, inbox, opc,
          connections, subscribers, sockets, channels, starting>>

(***************************************************************************)
(* Bounds of the model.                                                    *)
(***************************************************************************)
MaxInputs == 1      \* processUserInput calls issued while the session is created
MaxCallers == 2     \* processUserInput calls issued against a created session
MaxExpiries == 1    \* lock leases that run out while the holder is busy

Absent == <<>>
Some(x) == <<x>>
EmptyObj == [k \in {} |-> 0]

(***************************************************************************)
(* The flow bound to the session.  It passes FlowConfigParser.validate:    *)
(* validateTransition only asks that a transition without branch has a     *)
(* non-empty 'to', it never looks the target up in states.                 *)
(***************************************************************************)
Action(type, val, hasArgs) == [type |-> type, val |-> val, args |-> hasArgs]
Transition(onIntent, onToolResult, assign, to) ==
    [onIntent |-> onIntent, onToolResult |-> onToolResult, assign |-> assign, to |-> to,
     when |-> [kind |-> "none"], branch |-> Absent]
SlotTemplate(path) == [env |-> "slot", path |-> path]
Literal(v) == [env |-> "lit", path |-> v]

\* A session with one question, context assignments and a terminal state.
FlowCore ==
    [start |-> "A",
     states |->
        [A |-> [onEnter |-> Some(<<Action("ask", "qA", FALSE)>>),
                transitions |-> Some(<<
                    Transition("go", "", Some("x" :> SlotTemplate("v")), "B"),
                    Transition("note", "", Some("y" :> Literal(1)), "A"),
                    Transition("proto", "", Absent, "constructor")>>)],
         B |-> [onEnter |-> Some(<<Action("say", "bye", FALSE)>>),
                transitions |-> Absent]]]

\* A session whose start state calls tool T and moves on with its result.
FlowTool ==
    [start |-> "B",
     states |->
        [B |-> [onEnter |-> Some(<<Action("tool", "T", TRUE)>>),
                transitions |-> Some(<<
                    Transition("", "T", Absent, "C")>>)],
         C |-> [onEnter |-> Some(<<Action("say", "bye", FALSE),
                                   Action("hangup", "", FALSE)>>),
                transitions |-> Absent]]]

Guarded(tr, when) == [tr EXCEPT !.when = when]
Branching(tr, branch) == [tr EXCEPT !.branch = Some(branch)]
Gt(key, n) == [kind |-> "gt", key |-> key, n |-> n]
Else == [kind |-> "else"]
ToolOk == [kind |-> "ok"]

\* A session that routes on the context: guards, branches, a transition with
\* both branch and to, transitions that match after an earlier one, and a
\* tool whose result is routed.
FlowRoute ==
    [start |-> "R",
     states |->
        [R |-> [onEnter |-> Some(<<Action("ask", "qR", FALSE)>>),
                transitions |-> Some(<<
                    Guarded(Transition("go", "", Some("n" :> Literal(7)), "Lo"),
                            Gt("n", 0)),
                    Branching(Transition("go", "", Some("n" :> SlotTemplate("v")), ""),
                              << [when |-> Gt("n", 3), to |-> "Hi"],
                                 [when |-> Else, to |-> "Lo"] >>),
                    Transition("go", "", Some("z" :> Literal(9)), "Lo"),
                    Branching(Transition("low", "", Some("n" :> Literal(1)), ""),
                              << [when |-> Gt("n", 3), to |-> "Hi"],
                                 [when |-> Else, to |-> "Lo"] >>),
                    Branching(Transition("pick", "", Some("n" :> Literal(1)), "To"),
                              << [when |-> Gt("n", 3), to |-> "Hi"] >>)>>)],
         Hi |-> [onEnter |-> Some(<<Action("say", "hi", FALSE),
                                    Action("tool", "T", TRUE)>>),
                 transitions |-> Some(<<
                    Transition("", "T", Some("r" :> Literal(1)), "Done"),
                    Transition("", "T", Some("r" :> Literal(2)), "To")>>)],
         Lo |-> [onEnter |-> Some(<<Action("say", "lo", FALSE),
                                    Action("hangup", "", FALSE)>>),
                 transitions |-> Absent],
         To |-> [onEnter |-> Some(<<Action("say", "to", FALSE)>>),
                 transitions |-> Absent],
         Done |-> [onEnter |-> Some(<<Action("say", "bye", FALSE),
                                      Action("hangup", "", FALSE)>>),
                   transitions |-> Absent]]]

\* Flows whose start, or whose transition targets, are not keys of states.
FlowNoStart ==
    [start |-> "X",
     states |->
        [A |-> [onEnter |-> Some(<<Action("ask", "qA", FALSE)>>),
                transitions |-> Absent]]]

FlowProtoStart ==
    [start |-> "toString",
     states |->
        [A |-> [onEnter |-> Some(<<Action("ask", "qA", FALSE)>>),
                transitions |-> Absent]]]

FlowBadTo ==
    [start |-> "A",
     states |->
        [A |-> [onEnter |-> Some(<<Action("ask", "qA", FALSE)>>),
                transitions |-> Some(<<
                    Transition("go", "", Absent, "Nowhere"),
                    Branching(Transition("low", "", Absent, ""),
                              << [when |-> Else, to |-> "Nowhere"] >>)>>)]]]

\* A session with a state whose onEnter goes on after its tool action, and a
\* state whose tool action carries no args.
FlowAfter ==
    [start |-> "P",
     states |->
        [P |-> [onEnter |-> Some(<<Action("ask", "qP", FALSE)>>),
                transitions |-> Some(<<
                    Transition("go", "", Absent, "Q"),
                    Transition("low", "", Absent, "N")>>)],
         Q |-> [onEnter |-> Some(<<Action("tool", "T", TRUE),
                                   Action("say", "late", FALSE)>>),
                transitions |-> Some(<<
                    Transition("", "T", Absent, "Done")>>)],
         N |-> [onEnter |-> Some(<<Action("say", "wait", FALSE),
                                   Action("tool", "T", FALSE)>>),
                transitions |-> Some(<<
                    Transition("", "T", Absent, "Done")>>)],
         Done |-> [onEnter |-> Some(<<Action("say", "bye", FALSE),
                                      Action("hangup", "", FALSE)>>),
                   transitions |-> Absent]]]

\* createReservationFlow.  The texts of say and ask are abbreviated; the
\* say of Goodbye stands for its template with {{tool.reservationId}}.
FlowReservation ==
    [start |-> "InitialGreeting",
     states |->
        [InitialGreeting |->
            [onEnter |-> Some(<<Action("say", "welcome", FALSE)>>),
             transitions |-> Some(<<
                Transition("BOOK", "", Absent, "CollectPartySize"),
                Transition("ASK_QUESTION", "", Absent, "ProvideAdditionalInformation")>>)],
         ProvideAdditionalInformation |->
            [onEnter |-> Some(<<Action("ask", "what", FALSE)>>),
             transitions |-> Some(<<
                Transition("BOOK", "", Absent, "CollectPartySize"),
                Transition("ASK_QUESTION", "", Absent, "ProvideAdditionalInformation")>>)],
         CollectPartySize |->
            [onEnter |-> Some(<<Action("ask", "how many", FALSE)>>),
             transitions |-> Some(<<
                Branching(Transition("PROVIDE_PARTY_SIZE", "",
                                     Some("partySize" :> SlotTemplate("partySize")), ""),
                          << [when |-> Gt("partySize", 8), to |-> "TransferToManager"],
                             [when |-> Else, to |-> "CollectReservationDateTime"] >>)>>)],
         TransferToManager |->
            [onEnter |-> Some(<<Action("say", "manager", FALSE),
                                Action("transfer", "+15551234567", FALSE)>>),
             transitions |-> Absent],
         CollectReservationDateTime |->
            [onEnter |-> Some(<<Action("ask", "when", FALSE)>>),
             transitions |-> Some(<<
                Transition("PROVIDE_DATETIME", "",
                           Some(("date" :> SlotTemplate("date"))
                                @@ ("time" :> SlotTemplate("time"))),
                           "ConfirmAvailability")>>)],
         ConfirmAvailability |->
            [onEnter |-> Some(<<Action("tool", "CheckAvailability", TRUE)>>),
             transitions |-> Some(<<
                Guarded(Transition("", "CheckAvailability", Absent,
                                   "CollectContactInformation"), ToolOk),
                Guarded(Transition("", "CheckAvailability", Absent, "AltDateTime"),
                        Else)>>)],
         AltDateTime |->
            [onEnter |-> Some(<<Action("say", "unavailable", FALSE),
                                Action("ask", "another", FALSE)>>),
             transitions |-> Some(<<
                Transition("PROVIDE_DATETIME", "",
                           Some(("date" :> SlotTemplate("date"))
                                @@ ("time" :> SlotTemplate("time"))),
                           "ConfirmAvailability")>>)],
         CollectContactInformation |->
            [onEnter |-> Some(<<Action("ask", "contact", FALSE)>>),
             transitions |-> Some(<<
                Transition("PROVIDE_CONTACT", "",
                           Some(("contact.name" :> SlotTemplate("name"))
                                @@ ("contact.phone" :> SlotTemplate("phone"))),
                           "CreateBooking")>>)],
         CreateBooking |->
            [onEnter |-> Some(<<Action("tool", "CreateReservation", TRUE)>>),
             transitions |-> Some(<<
                Transition("", "CreateReservation", Absent, "Goodbye")>>)],
         Goodbye |->
            [onEnter |-> Some(<<Action("say", "all set", FALSE),
                                Action("hangup", "", FALSE)>>),
             transitions |-> Absent]]]

Flows ==
    [core |-> FlowCore, tool |-> FlowTool, route |-> FlowRoute,
     nostart |-> FlowNoStart, protostart |-> FlowProtoStart, badto |-> FlowBadTo,
     after |-> FlowAfter, reservation |-> FlowReservation]

\* What the classifier returns for the user texts of the model.
\* The user texts of the reservation flow: a party of 8, a party of 9, a date
\* and time, a name and a phone number (slot values are written as numbers).
ReservationIntent(text) ==
    CASE text = "table for two" ->
            [name |-> "BOOK", slots |-> EmptyObj, confidence |-> 9]
      [] text = "party of 8" ->
            [name |-> "PROVIDE_PARTY_SIZE", slots |-> ("partySize" :> 8), confidence |-> 9]
      [] text = "party of 9" ->
            [name |-> "PROVIDE_PARTY_SIZE", slots |-> ("partySize" :> 9), confidence |-> 9]
      [] text = "tomorrow at 7" ->
            [name |-> "PROVIDE_DATETIME", slots |-> ("date" :> 20) @@ ("time" :> 19),
             confidence |-> 9]
      [] text = "Ana, 555" ->
            [name |-> "PROVIDE_CONTACT", slots |-> ("name" :> 1) @@ ("phone" :> 555),
             confidence |-> 9]

ReservationTexts == {"table for two", "party of 8", "party of 9", "tomorrow at 7", "Ana, 555"}

Intent(text) ==
    IF text \in ReservationTexts THEN ReservationIntent(text)
    ELSE
    LET name == IF text = "go?" THEN "go" ELSE text IN
    [name |-> name, slots |-> IF name = "go" THEN ("v" :> 4) ELSE EmptyObj,
     confidence |-> IF text = "go" THEN 9 ELSE IF text = "go?" THEN 6 ELSE 2]

WorkerKinds == {"function", "mock"}

(***************************************************************************)
(* flowConfig.states[name] on a JSON-parsed object: an own key gives the   *)
(* state, a member inherited from Object.prototype gives a truthy value    *)
(* that has neither onEnter nor transitions, anything else undefined.      *)
(***************************************************************************)
ObjectPrototypeKeys == {"constructor", "toString"}
StatesLookup(flow, name) ==
    IF name \in DOMAIN Flows[flow].states THEN Some(Flows[flow].states[name])
    ELSE IF name \in ObjectPrototypeKeys
         THEN Some([onEnter |-> Absent, transitions |-> Absent])
         ELSE Absent

(***************************************************************************)
(* TemplateResolver.resolve on the templates of the flow: a {{slot.p}}     *)
(* reference is replaced by the slot's value, "" when it is missing.       *)
(***************************************************************************)
Resolve(tpl, ctx, slots) ==
    IF tpl.env = "lit" THEN tpl.path
    ELSE IF tpl.env = "slot"
         THEN IF tpl.path \in DOMAIN slots THEN slots[tpl.path] ELSE ""
         ELSE IF tpl.path \in DOMAIN ctx THEN ctx[tpl.path] ELSE ""

(***************************************************************************)
(* ExpressionEvaluator.evaluate on the guards of the flow: "else", or      *)
(* "{{ctx.key}} > n" (a missing key resolves to "", which compares as 0).  *)
(***************************************************************************)
EvaluateAtLeast(expr, ctx) ==
    CASE expr.kind = "else" -> TRUE
      [] expr.kind = "gt" ->
            (IF expr.key \in DOMAIN ctx THEN ctx[expr.key] ELSE 0) >= expr.n
      [] expr.kind = "ok" -> FALSE

Evaluate(expr, ctx) ==
    CASE expr.kind = "else" -> TRUE
      [] expr.kind = "gt" ->
            (IF expr.key \in DOMAIN ctx THEN ctx[expr.key] ELSE 0) > expr.n
      [] expr.kind = "ok" -> FALSE

\* evaluate with a tool result: "{{tool.ok}} == true" compares the ok field
\* of the result with true.  The result {ok: true} is written "ok", the
\* result {ok: false} "no".
EvaluateWith(expr, ctx, toolResult) ==
    IF expr.kind = "ok" THEN toolResult = "ok" ELSE Evaluate(expr, ctx)

(***************************************************************************)
(* Events and the store commands of emitEvent.                             *)
(***************************************************************************)
Event(type, a, b) == [type |-> type, a |-> a, b |-> b, seq |-> 0, id |-> 0]

\* emitEvent: INCR, then XADD, then PUBLISH, each awaited.
EmitEvent(ev) == << [op |-> "incr", ev |-> ev] >>

PublishFirst(ev) == << [op |-> "publish", ev |-> ev], [op |-> "xadd", ev |-> ev] >>

\* What emitEvent does with the seq INCR gave it: XADD, then PUBLISH.
EmitRest(ev) == << [op |-> "xadd", ev |-> ev], [op |-> "publish", ev |-> ev] >>

\* The id XADD '*' gives the n-th entry of the stream: <ms since 1970>-0 on a
\* clock that moves on between entries.  2000000000 stands for the wall
\* clock, which lies above every seq a reader can pass.
StreamId(n) == 2000000000 + n

\* XRANGE stream startId '+' with startId = `${sinceSeq}-0`, or '0-0' when
\* sinceSeq is 0 or undefined; the entries are parsed back to the events.
GetEventsSince(entries, sinceSeq) ==
    LET startId == IF sinceSeq # 0 THEN sinceSeq ELSE 0
        InRange(e) == e.id >= startId
        range == SelectSeq(entries, InRange)
    IN [i \in 1..Len(range) |-> [range[i] EXCEPT !.id = 0]]

(***************************************************************************)
(* SessionManager's read-modify-write operations.  Each reads the whole    *)
(* record (getSessionState), changes one field, writes the whole record    *)
(* back (setSessionState) and, except storeIntent, emits an event.         *)
(***************************************************************************)
StoreIntent(intent) == << [op |-> "hget", f |-> "intent", x |-> intent] >>
UpdateContext(updates) == << [op |-> "hget", f |-> "context", x |-> updates] >>
TransitionToState(newState) == << [op |-> "hget", f |-> "transition", x |-> newState] >>
StoreToolCall(id, name) ==
    << [op |-> "hget", f |-> "toolCall", x |-> [id |-> id, name |-> name]] >>
StoreToolResult(id, result) ==
    << [op |-> "hget", f |-> "toolResult", x |-> [callId |-> id, result |-> result]] >>

\* The record written back, from the record read.
Modified(f, x, s) ==
    CASE f = "intent" -> [s EXCEPT !.lastIntent = Some(x)]
      [] f = "context" -> [s EXCEPT !.context = x @@ s.context]
      [] f = "transition" -> [s EXCEPT !.currentState = x]
      [] f = "toolCall" -> [s EXCEPT !.lastToolCall = Some(x)]
      [] f = "toolResult" -> [s EXCEPT !.lastToolResult = Some(x)]

\* The event emitted after the write.
EmittedAfter(f, x, s) ==
    CASE f = "intent" -> << >>
      [] f = "context" -> EmitEvent(Event("state.updated", x @@ s.context, ""))
      [] f = "transition" -> EmitEvent(Event("fsm.transition", s.currentState, x))
      [] f = "toolCall" -> EmitEvent(Event("tool.call", x.id, x.name))
      [] f = "toolResult" -> EmitEvent(Event("tool.result", x.callId, x.result))

(***************************************************************************)
(* FSMOrchestrator: the continuations of its methods.                      *)
(***************************************************************************)
EnterState(stateName) == << [op |-> "getSession", k |-> "enter", x |-> stateName] >>
ProcessToolResult(id, result) ==
    << [op |-> "getSession", k |-> "ptr", x |-> [id |-> id, result |-> result]] >>

\* processUserInput: withLock around the body.  'text' is what the
\* classifier will make of the user's text.
ProcessUserInput(text) ==
    << [op |-> "acquire"],
       [op |-> "getSession", k |-> "pui", x |-> text],
       [op |-> "release", rethrow |-> FALSE] >>

\* POST /sessions with a valid flow: createSession, then
\* enterState(flow.start), outside any lock.
PostSessions(flow) ==
    << [op |-> "createState", flow |-> flow], [op |-> "createFlow", flow |-> flow] >>
    \o EnterState(Flows[flow].start)

EnterBeforeAssign(tr, session, slots) ==
    (IF tr.branch # Absent
     THEN << [op |-> "getSession", k |-> "branch",
              x |-> [branch |-> tr.branch[1], to |-> tr.to]] >>
     ELSE IF tr.to # "" THEN EnterState(tr.to) ELSE << >>)
    \o (IF tr.assign # Absent
        THEN <<[op |-> "updates",
                x |-> [key \in DOMAIN tr.assign[1] |->
                           Resolve(tr.assign[1][key], session.context, slots)]]>>
        ELSE << >>)

\* executeTransition, up to its first await.
ExecuteTransition(tr, session, slots) ==
    (IF tr.assign # Absent
     THEN <<[op |-> "updates",
             x |-> [key \in DOMAIN tr.assign[1] |->
                        Resolve(tr.assign[1][key], session.context, slots)]]>>
     ELSE << >>)
    \o (IF tr.branch # Absent
        THEN << [op |-> "getSession", k |-> "branch",
                 x |-> [branch |-> tr.branch[1], to |-> tr.to]] >>
        ELSE IF tr.to # "" THEN EnterState(tr.to) ELSE << >>)

\* executeTransition after its getSessionState: the first branch whose guard
\* holds on the re-read context, else the direct 'to'.
BranchTarget(branch, to, ctx) ==
    IF \E i \in 1..Len(branch) : Evaluate(branch[i].when, ctx)
    THEN EnterState(branch[CHOOSE i \in 1..Len(branch) :
                              Evaluate(branch[i].when, ctx)
                              /\ \A j \in 1..(i - 1) : ~Evaluate(branch[j].when, ctx)].to)
    ELSE IF to # "" THEN EnterState(to) ELSE << >>

MatchesIfConfident(tr, intent, session) ==
    /\ tr.onIntent # ""
    /\ tr.onIntent = intent.name
    /\ intent.confidence > 7
    /\ (tr.when.kind # "none" => Evaluate(tr.when, session.context))

MatchesAfterAssign(tr, intent, session) ==
    /\ tr.onIntent # ""
    /\ tr.onIntent = intent.name
    /\ (tr.when.kind # "none"
          => Evaluate(tr.when,
                      (IF tr.assign = Absent THEN EmptyObj
                       ELSE [key \in DOMAIN tr.assign[1] |->
                                Resolve(tr.assign[1][key], session.context, intent.slots)])
                      @@ session.context))

MatchesWithoutOnIntent(tr, intent, session) ==
    /\ tr.onIntent = "" \/ tr.onIntent = intent.name
    /\ (tr.when.kind # "none" => Evaluate(tr.when, session.context))

matchesIntentTransition(tr, intent, session) ==
    /\ tr.onIntent # ""
    /\ tr.onIntent = intent.name
    /\ (tr.when.kind # "none" => Evaluate(tr.when, session.context))

matchesToolResultTransition(tr, toolName, result, session) ==
    /\ tr.onToolResult # ""
    /\ tr.onToolResult = toolName
    /\ (tr.when.kind # "none" => EvaluateWith(tr.when, session.context, result))

LastMatch(trs, matched) ==
    IF \E i \in 1..Len(trs) : matched[i]
    THEN Some(trs[CHOOSE i \in 1..Len(trs) :
                    matched[i] /\ \A j \in (i + 1)..Len(trs) : ~matched[j]])
    ELSE Absent

\* The first element of trs (in declaration order) that matches: the loop
\* 'for (const transition of ...) if (matches) { ...; return }'.
\* matched[i] tells whether trs[i] matches.
FirstMatch(trs, matched) ==
    IF \E i \in 1..Len(trs) : matched[i]
    THEN Some(trs[CHOOSE i \in 1..Len(trs) :
                    matched[i] /\ \A j \in 1..(i - 1) : ~matched[j]])
    ELSE Absent

\* processIntent, up to its first await.
ProcessIntent(intent, session, flow) ==
    LET st == StatesLookup(flow, session.currentState) IN
    IF st = Absent \/ st[1].transitions = Absent THEN << >>
    ELSE LET trs == st[1].transitions[1]
             matched == [i \in 1..Len(trs) |->
                            matchesIntentTransition(trs[i], intent, session)]
             m == FirstMatch(trs, matched)
         IN IF m # Absent
            THEN ExecuteTransition(m[1], session, intent.slots)
            ELSE EmitEvent(Event("intent.unhandled", intent.name, session.currentState))
                 \o << [op |-> "setTimeout",
                        body |-> << [op |-> "sleep"],
                                    [op |-> "reAsk", session |-> session,
                                     flow |-> flow] >>] >>

\* processToolResultTransition, up to its first await.
ProcessToolResultTransition(session, flow, result) ==
    LET st == StatesLookup(flow, session.currentState) IN
    IF st = Absent \/ st[1].transitions = Absent THEN << >>
    ELSE IF session.lastToolCall = Absent THEN << >>
    ELSE LET trs == st[1].transitions[1]
             matched == [i \in 1..Len(trs) |->
                            matchesToolResultTransition(trs[i], session.lastToolCall[1].name,
                                                        result, session)]
             m == FirstMatch(trs, matched)
         IN IF m # Absent THEN ExecuteTransition(m[1], session, EmptyObj) ELSE << >>

\* currentState.onEnter.find(action => action.ask)
RECURSIVE FindAsk(_, _)
FindAsk(actions, i) ==
    IF i > Len(actions) THEN Absent
    ELSE IF actions[i].type = "ask" THEN Some(actions[i])
    ELSE FindAsk(actions, i + 1)

\* reAskCurrentQuestion, up to its first await.
ReAskCurrentQuestion(session, flow) ==
    LET st == StatesLookup(flow, session.currentState) IN
    IF st = Absent \/ st[1].onEnter = Absent THEN << >>
    ELSE LET askAction == FindAsk(st[1].onEnter[1], 1) IN
         IF askAction = Absent THEN << >>
         ELSE EmitEvent(Event("say", "clarify", ""))
              \o << [op |-> "setTimeout",
                     body |-> << [op |-> "sleep"] >>
                              \o EmitEvent(Event("ask", askAction[1].val, ""))] >>

\* executeTool with tool call id 'id', up to its first await.
ExecuteTool(toolName, id, worker) ==
    StoreToolCall(id, toolName)
    \o (IF worker = "none"
        THEN EmitEvent(Event("tool.error", id, "not registered"))
        ELSE << [op |-> "startWorker", id |-> id, worker |-> worker, tool |-> toolName],
                [op |-> "catch", id |-> id] >>)

\* executeAction for one onEnter action, up to its first await.
ExecuteAction(action, id, worker) ==
    CASE action.type = "say" -> EmitEvent(Event("say", action.val, ""))
      [] action.type = "ask" -> EmitEvent(Event("ask", action.val, ""))
      [] action.type = "transfer" -> EmitEvent(Event("transfer", action.val, ""))
      [] action.type = "hangup" -> EmitEvent(Event("hangup", "", ""))
      [] action.type = "tool" ->
            IF action.args THEN ExecuteTool(action.val, id, worker) ELSE << >>

\* ToolWorker.execute of the registered worker, as the body of its own task.
\* MockToolWorker reports the result to the orchestrator before returning it.
\* SafeToolWorker starts with the first attempt on the worker it wraps.
WorkerBody(worker, id, toolName) ==
    IF worker = "mock"
    THEN << [op |-> "sleep"] >>
         \o ProcessToolResult(id, "ok")
         \o << [op |-> "return", val |-> "ok"] >>
    ELSE IF worker = "safe"
    THEN << [op |-> "attempt", n |-> 1] >>
    ELSE << [op |-> "work", tool |-> toolName] >>

(***************************************************************************)
(* Tasks.                                                                  *)
(***************************************************************************)
NewTask(kind, todo) ==
    [kind |-> kind, todo |-> todo, outcome |-> "running", val |-> "",
     lockValue |-> 0, released |-> "", calls |-> 0, updates |-> EmptyObj]

Replace(ts, t, prefix) == [ts EXCEPT ![t].todo = prefix \o Tail(@)]

UnwindPastFinally(td, message) == << >>

\* A thrown error: unwind to the nearest catch or finally of the call chain.
\* executeTool's catch emits tool.error with the error's message.
RECURSIVE Unwind(_, _)
Unwind(td, message) ==
    IF td = << >> THEN << >>
    ELSE IF Head(td).op = "catch"
         THEN EmitEvent(Event("tool.error", Head(td).id, message)) \o Tail(td)
    ELSE IF Head(td).op = "release"
         THEN << [op |-> "release", rethrow |-> TRUE] >> \o Tail(td)
    ELSE Unwind(Tail(td), message)

RaiseWith(ts, t, message) ==
    LET td == Unwind(ts[t].todo, message) IN
    IF td = << >>
    THEN [ts EXCEPT ![t].todo = << >>, ![t].outcome = "failed"]
    ELSE [ts EXCEPT ![t].todo = td]

Raise(ts, t) == RaiseWith(ts, t, "error")

\* The synchronous code that runs after an await returns, up to the next await.
RECURSIVE Settle(_, _)
Settle(ts, t) ==
    LET td == ts[t].todo IN
    IF td = << >>
    THEN [ts EXCEPT ![t].outcome = IF @ = "running" THEN "ok" ELSE @]
    ELSE LET o == Head(td) IN
         CASE o.op = "catch" -> Settle(Replace(ts, t, << >>), t)
           [] o.op = "return" ->
                Settle([Replace(ts, t, << >>) EXCEPT ![t].val = o.val], t)
           [] o.op = "setTimeout" ->
                Settle(Append(Replace(ts, t, << >>), NewTask("timer", o.body)), t)
           [] o.op = "startWorker" ->
                Settle(Append(Replace(ts, t, << [op |-> "race", w |-> Len(ts) + 1,
                                                 id |-> o.id] >>),
                              [NewTask("worker", WorkerBody(o.worker, o.id, o.tool))
                                 EXCEPT !.lockValue = ts[t].lockValue]), t)
           [] o.op = "processIntent" ->
                Settle(Replace(ts, t, ProcessIntent(o.intent, o.session, o.flow)), t)
           [] o.op = "ptrTransition" ->
                Settle(Replace(ts, t, ProcessToolResultTransition(o.session, o.flow, o.result)), t)
           [] o.op = "reAsk" ->
                Settle(Replace(ts, t, ReAskCurrentQuestion(o.session, o.flow)), t)
           [] o.op = "updates" ->
                Settle([Replace(ts, t, UpdateContext(o.x)) EXCEPT ![t].updates = o.x], t)
           [] o.op = "action" ->
                Settle([Replace(ts, t, ExecuteAction(o.action, <<t, ts[t].calls + 1>>,
                                                     o.worker))
                        EXCEPT ![t].calls = IF o.action.type = "tool" /\ o.action.args
                                            THEN @ + 1 ELSE @], t)
           [] OTHER -> ts

Next1(ts, t, prefix) == Settle(Replace(ts, t, prefix), t)

Running(t) == t \in DOMAIN tasks /\ tasks[t].todo # << >>
At(t, op) == Running(t) /\ Head(tasks[t].todo).op = op
Op(t) == Head(tasks[t].todo)

(***************************************************************************)
(* Store commands.                                                         *)
(***************************************************************************)
InitialState(flow) ==
    [currentState |-> Flows[flow].start, context |-> EmptyObj, lastIntent |-> Absent,
     lastToolCall |-> Absent, lastToolResult |-> Absent]

store == <<state, flowKey, seq, log, lock>>
fanout == <<connections, subscribers, sockets, channels, starting>>
observers == <<subs, inbox, opc, fanout>>

\* No WebSocket has connected.
NoFanout ==
    /\ connections = << >>
    /\ subscribers = << >>
    /\ sockets = << >>
    /\ channels = << >>
    /\ starting = {}

\* createSession: HSET state:call:S, then HSET flow:S.
CreateSessionState(t) ==
    /\ At(t, "createState")
    /\ state' = Some(InitialState(Op(t).flow))
    /\ tasks' = Next1(tasks, t, << >>)
    /\ UNCHANGED <<flowKey, seq, log, lock, expiries, registry, observers>>

CreateSessionFlow(t) ==
    /\ At(t, "createFlow")
    /\ flowKey' = Op(t).flow
    /\ tasks' = Next1(tasks, t, << >>)
    /\ UNCHANGED <<state, seq, log, lock, expiries, registry, observers>>

(***************************************************************************)
(* The lock: SET lock:sess_S value PX 10000 NX, and the compare-and-delete *)
(* script of releaseLock.  Both give the new value of the key.             *)
(***************************************************************************)
SetAlways(key, value) == value

SetNX(key, value) == IF key = 0 THEN value ELSE key

ReleaseAlways(key, value) == 0

ReleaseNever(key, value) == key

ReleaseScript(key, value) == IF key = value THEN 0 ELSE key

\* withLock's acquireLock; a failure throws before the try block is entered.
\* The lock value (a fresh uuid) is the task's number.
AcquireLock(t) ==
    /\ At(t, "acquire")
    /\ lock' = SetNX(lock, t)
    /\ tasks' = IF lock' = t
                THEN [Next1(tasks, t, << >>) EXCEPT ![t].lockValue = t]
                ELSE [tasks EXCEPT ![t].todo = << >>, ![t].outcome = "failed"]
    /\ UNCHANGED <<state, flowKey, seq, log, expiries, registry, observers>>

\* withLock's finally: releaseLock, then the error (if any) goes on.
ReleaseLock(t) ==
    /\ At(t, "release")
    /\ lock' = ReleaseScript(lock, tasks[t].lockValue)
    /\ LET ts == [Replace(tasks, t, << >>) EXCEPT
                    ![t].released = IF lock' # lock THEN "yes" ELSE "no"]
       IN tasks' = IF Op(t).rethrow THEN Raise(ts, t) ELSE Settle(ts, t)
    /\ UNCHANGED <<state, flowKey, seq, log, expiries, registry, observers>>

\* The 10 s lease of the lock runs out while its holder is still at work.
LeaseExpire ==
    /\ lock # 0
    /\ expiries < MaxExpiries
    /\ lock' = 0
    /\ expiries' = expiries + 1
    /\ UNCHANGED <<state, flowKey, seq, log, tasks, registry, observers>>

(***************************************************************************)
(* getSessionState / getFlowConfig at the head of processUserInput,        *)
(* processToolResult and enterState, and executeTransition's re-read.      *)
(***************************************************************************)
GetSessionState(t) ==
    /\ At(t, "getSession")
    /\ tasks' =
         IF Op(t).k = "branch"
         THEN IF state = Absent THEN Next1(tasks, t, << >>)
              ELSE Next1(tasks, t,
                         BranchTarget(Op(t).x.branch, Op(t).x.to, state[1].context))
         ELSE Next1(tasks, t, << [op |-> "getFlow", k |-> Op(t).k, x |-> Op(t).x,
                                  session |-> state] >>)
    /\ UNCHANGED <<store, expiries, registry, observers>>

OnEnterReversed(st, worker) ==
    IF st.onEnter = Absent THEN << >>
    ELSE [i \in 1..Len(st.onEnter[1]) |->
            [op |-> "action", action |-> st.onEnter[1][Len(st.onEnter[1]) + 1 - i],
             worker |-> worker]]

OnEnterUntilTool(st, worker) ==
    IF st.onEnter = Absent THEN << >>
    ELSE LET n == IF \E i \in 1..Len(st.onEnter[1]) : st.onEnter[1][i].type = "tool"
                  THEN CHOOSE i \in 1..Len(st.onEnter[1]) :
                          /\ st.onEnter[1][i].type = "tool"
                          /\ \A j \in 1..(i - 1) : st.onEnter[1][j].type # "tool"
                  ELSE Len(st.onEnter[1])
         IN [i \in 1..n |->
               [op |-> "action", action |-> st.onEnter[1][i], worker |-> worker]]

\* The onEnter actions of a state, in declaration order.
OnEnterActions(st, worker) ==
    IF st.onEnter = Absent THEN << >>
    ELSE [i \in 1..Len(st.onEnter[1]) |->
            [op |-> "action", action |-> st.onEnter[1][i], worker |-> worker]]

GetFlowConfig(t) ==
    /\ At(t, "getFlow")
    /\ LET o == Op(t) IN
       tasks' =
         IF o.session = Absent \/ flowKey = "" THEN Raise(tasks, t)
         ELSE CASE o.k = "pui" ->
                     Next1(tasks, t, << [op |-> "classify", session |-> o.session[1],
                                         flow |-> flowKey, text |-> o.x] >>)
                [] o.k = "ptr" ->
                     Next1(tasks, t, StoreToolResult(o.x.id, o.x.result)
                                     \o << [op |-> "ptrTransition", flow |-> flowKey,
                                            session |-> o.session[1],
                                            result |-> o.x.result] >>)
                [] o.k = "enter" ->
                     IF StatesLookup(flowKey, o.x) = Absent THEN Raise(tasks, t)
                     ELSE Next1(tasks, t,
                                TransitionToState(o.x)
                                \o OnEnterActions(StatesLookup(flowKey, o.x)[1], registry))
    /\ UNCHANGED <<store, expiries, registry, observers>>

\* classifier.classifyIntent returns; storeIntent and processIntent follow.
ClassifyIntent(t) ==
    /\ At(t, "classify")
    /\ tasks' = Next1(tasks, t, StoreIntent(Intent(Op(t).text))
                                \o << [op |-> "processIntent",
                                       intent |-> Intent(Op(t).text),
                                       session |-> Op(t).session,
                                       flow |-> Op(t).flow] >>)
    /\ UNCHANGED <<store, expiries, registry, observers>>

(***************************************************************************)
(* The read and the write of a read-modify-write operation.                *)
(***************************************************************************)
ReadForUpdate(t) ==
    /\ At(t, "hget")
    /\ tasks' =
         IF state = Absent THEN Raise(tasks, t)
         ELSE Next1(tasks, t,
                    << [op |-> "hset", val |-> Modified(Op(t).f, Op(t).x, state[1])] >>
                    \o EmittedAfter(Op(t).f, Op(t).x, state[1]))
    /\ UNCHANGED <<store, expiries, registry, observers>>

SetSessionState(t) ==
    /\ At(t, "hset")
    /\ state' = Some(Op(t).val)
    /\ tasks' = Next1(tasks, t, << >>)
    /\ UNCHANGED <<flowKey, seq, log, lock, expiries, registry, observers>>

(***************************************************************************)
(* emitEvent, command by command.                                          *)
(***************************************************************************)
Incr(t) ==
    /\ At(t, "incr")
    /\ seq' = seq + 1
    /\ tasks' = Next1(tasks, t, EmitRest([Op(t).ev EXCEPT !.seq = seq']))
    /\ UNCHANGED <<state, flowKey, log, lock, expiries, registry, observers>>

XAdd(t) ==
    /\ At(t, "xadd")
    /\ log' = Append(log, [Op(t).ev EXCEPT !.id = StreamId(Len(log) + 1)])
    /\ tasks' = Next1(tasks, t, << >>)
    /\ UNCHANGED <<state, flowKey, seq, lock, expiries, registry, observers>>

Publish(t) ==
    /\ At(t, "publish")
    /\ inbox' = [o \in DOMAIN inbox |->
                    IF o \in subs THEN Append(inbox[o], Op(t).ev) ELSE inbox[o]]
    /\ tasks' = Next1(tasks, t, << >>)
    /\ UNCHANGED <<store, expiries, registry, subs, opc, fanout>>

(***************************************************************************)
(* Timers and tool workers.                                                *)
(***************************************************************************)
\* A setTimeout delay elapses and the callback starts.
TimerFire(t) ==
    /\ At(t, "sleep")
    /\ tasks' = Next1(tasks, t, << >>)
    /\ UNCHANGED <<store, expiries, registry, observers>>

\* A worker that computes its result itself returns it, or throws.
WorkerReturn(t) ==
    /\ At(t, "work")
    /\ tasks' = Next1(tasks, t, << [op |-> "return", val |-> "ok"] >>)
    /\ UNCHANGED <<store, expiries, registry, observers>>

\* The CheckAvailability worker finds no table: its result is {ok: false}.
WorkerReturnsNo(t) ==
    /\ At(t, "work")
    /\ Op(t).tool = "CheckAvailability"
    /\ tasks' = Next1(tasks, t, << [op |-> "return", val |-> "no"] >>)
    /\ UNCHANGED <<store, expiries, registry, observers>>

WorkerThrow(t) ==
    /\ At(t, "work")
    /\ tasks' = Raise(tasks, t)
    /\ UNCHANGED <<store, expiries, registry, observers>>

(***************************************************************************)
(* SafeToolWorker.execute around a worker that returns or throws: attempt  *)
(* n (counted from 1) of maxRetries.                                       *)
(***************************************************************************)
MaxRetries == 3

OneMoreRetry(n) == n < MaxRetries + 1

\* 'attempt < this.maxRetries - 1' for the 0-based attempt n - 1: another
\* attempt follows the failed attempt n.
RetriesLeft(n) == n < MaxRetries

\* The wrapped worker returns: SafeToolWorker returns its result at once.
AttemptReturn(t) ==
    /\ At(t, "attempt")
    /\ tasks' = Next1([tasks EXCEPT ![t].calls = Op(t).n], t,
                      << [op |-> "return", val |-> "ok"] >>)
    /\ UNCHANGED <<store, expiries, registry, observers>>

\* The wrapped worker throws: wait retryDelay and try again, or after the
\* last attempt throw the last error.
AttemptThrow(t) ==
    /\ At(t, "attempt")
    /\ LET ts == [tasks EXCEPT ![t].calls = Op(t).n] IN
       tasks' = IF RetriesLeft(Op(t).n)
                THEN Next1(ts, t, << [op |-> "sleep"],
                                     [op |-> "attempt", n |-> Op(t).n + 1] >>)
                ELSE Raise(ts, t)
    /\ UNCHANGED <<store, expiries, registry, observers>>

\* executeTool's await Promise.race(...) returns the worker's result, or
\* throws its error into the catch block.
AwaitWorker(t) ==
    /\ At(t, "race")
    /\ tasks[Op(t).w].outcome # "running"
    /\ tasks' = IF tasks[Op(t).w].outcome = "ok"
                THEN Next1(tasks, t, ProcessToolResult(Op(t).id, tasks[Op(t).w].val))
                ELSE Raise(tasks, t)
    /\ UNCHANGED <<store, expiries, registry, observers>>

\* executeTool's timeout (timeout_ms, 30 s by default) wins the race while the
\* worker is still at work; the worker goes on.
ToolTimeout(t) ==
    /\ At(t, "race")
    /\ tasks[Op(t).w].outcome = "running"
    /\ tasks' = RaiseWith(tasks, t, "timeout")
    /\ UNCHANGED <<store, expiries, registry, observers>>

(***************************************************************************)
(* Observers: clients of subscribeToSession and of GET /sessions/:id/events *)
(* (getEventsSince).  "sr" subscribes and then range-reads, "rs" range-    *)
(* reads and then subscribes, "live" is subscribed from the first event.   *)
(***************************************************************************)
Observers == {"sr", "rs", "live"}

Protocol(o) ==
    CASE o = "sr" -> << "subscribe", "read" >>
      [] o = "rs" -> << "read", "subscribe" >>
      [] OTHER -> << >>

ObserverAt(o, step) ==
    /\ o \in DOMAIN opc
    /\ opc[o].done < Len(Protocol(o))
    /\ Protocol(o)[opc[o].done + 1] = step

\* await subscriber.subscribe(channel)
Subscribe(o) ==
    /\ ObserverAt(o, "subscribe")
    /\ subs' = subs \cup {o}
    /\ opc' = [opc EXCEPT ![o].done = @ + 1]
    /\ UNCHANGED <<store, tasks, expiries, registry, inbox, fanout>>

\* GET /sessions/:id/events?since=<last seen seq>
RangeRead(o) ==
    /\ ObserverAt(o, "read")
    /\ opc' = [opc EXCEPT ![o].done = @ + 1,
                          ![o].fetched = GetEventsSince(log, opc[o].since)]
    /\ UNCHANGED <<store, tasks, expiries, registry, subs, inbox, fanout>>

Tasks == DOMAIN tasks

(***************************************************************************)
(* Spec: a session is created (POST /sessions) while MaxInputs user inputs *)
(* are posted to it.                                                       *)
(***************************************************************************)
CoreTexts == {"go", "proto", "chat"}

Init ==
    /\ state = Absent
    /\ flowKey = ""
    /\ seq = 0
    /\ log = << >>
    /\ lock = 0
    /\ \E texts \in [1..MaxInputs -> CoreTexts] :
         tasks = << NewTask("create", PostSessions("core")) >>
                 \o [i \in 1..MaxInputs |-> NewTask("input", ProcessUserInput(texts[i]))]
    /\ expiries = 0
    /\ registry = "none"
    /\ subs = {}
    /\ inbox = << >>
    /\ opc = << >>
    /\ NoFanout

Next ==
    \/ \E t \in Tasks : CreateSessionState(t)
    \/ \E t \in Tasks : CreateSessionFlow(t)
    \/ \E t \in Tasks : AcquireLock(t)
    \/ \E t \in Tasks : ReleaseLock(t)
    \/ \E t \in Tasks : GetSessionState(t)
    \/ \E t \in Tasks : GetFlowConfig(t)
    \/ \E t \in Tasks : ClassifyIntent(t)
    \/ \E t \in Tasks : ReadForUpdate(t)
    \/ \E t \in Tasks : SetSessionState(t)
    \/ \E t \in Tasks : Incr(t)
    \/ \E t \in Tasks : XAdd(t)
    \/ \E t \in Tasks : Publish(t)
    \/ \E t \in Tasks : TimerFire(t)

Spec == Init /\ [][Next]_vars

(***************************************************************************)
(* SpecLock: MaxCallers user inputs are posted to a session that POST      *)
(* /sessions has created, and the lock lease may run out.                  *)
(***************************************************************************)
\* The store when POST /sessions with the core flow has returned.
CreatedLog ==
    << [type |-> "fsm.transition", a |-> "A", b |-> "A", seq |-> 1, id |-> StreamId(1)],
       [type |-> "ask", a |-> "qA", b |-> "", seq |-> 2, id |-> StreamId(2)] >>

LockTexts == {"go", "note"}

InitLock ==
    /\ state = Some(InitialState("core"))
    /\ flowKey = "core"
    /\ seq = 2
    /\ log = CreatedLog
    /\ lock = 0
    /\ \E texts \in [1..MaxCallers -> LockTexts] :
         tasks = [i \in 1..MaxCallers |-> NewTask("input", ProcessUserInput(texts[i]))]
    /\ expiries = 0
    /\ registry = "none"
    /\ subs = {}
    /\ inbox = << >>
    /\ opc = << >>
    /\ NoFanout

NextLock ==
    \/ \E t \in Tasks : AcquireLock(t)
    \/ \E t \in Tasks : ReleaseLock(t)
    \/ LeaseExpire
    \/ \E t \in Tasks : GetSessionState(t)
    \/ \E t \in Tasks : GetFlowConfig(t)
    \/ \E t \in Tasks : ClassifyIntent(t)
    \/ \E t \in Tasks : ReadForUpdate(t)
    \/ \E t \in Tasks : SetSessionState(t)
    \/ \E t \in Tasks : Incr(t)
    \/ \E t \in Tasks : XAdd(t)
    \/ \E t \in Tasks : Publish(t)

SpecLock == InitLock /\ [][NextLock]_vars

(***************************************************************************)
(* SpecLease: MaxCallers user inputs are posted to a session that has      *)
(* reached the terminal state B (POST /sessions, then the input "go"),     *)
(* and the lock lease may run out.                                         *)
(***************************************************************************)
AfterGoState ==
    [InitialState("core") EXCEPT !.currentState = "B", !.context = ("x" :> 4),
                                 !.lastIntent = Some(Intent("go"))]

AfterGoLog ==
    CreatedLog \o
    << [type |-> "state.updated", a |-> ("x" :> 4), b |-> "", seq |-> 3, id |-> StreamId(3)],
       [type |-> "fsm.transition", a |-> "A", b |-> "B", seq |-> 4, id |-> StreamId(4)],
       [type |-> "say", a |-> "bye", b |-> "", seq |-> 5, id |-> StreamId(5)] >>

LeaseTexts == {"go", "chat"}

InitLease ==
    /\ state = Some(AfterGoState)
    /\ flowKey = "core"
    /\ seq = 5
    /\ log = AfterGoLog
    /\ lock = 0
    /\ \E texts \in [1..MaxCallers -> LeaseTexts] :
         tasks = [i \in 1..MaxCallers |-> NewTask("input", ProcessUserInput(texts[i]))]
    /\ expiries = 0
    /\ registry = "none"
    /\ subs = {}
    /\ inbox = << >>
    /\ opc = << >>
    /\ NoFanout

NextLease ==
    \/ \E t \in Tasks : AcquireLock(t)
    \/ \E t \in Tasks : ReleaseLock(t)
    \/ LeaseExpire
    \/ \E t \in Tasks : GetSessionState(t)
    \/ \E t \in Tasks : GetFlowConfig(t)
    \/ \E t \in Tasks : ClassifyIntent(t)
    \/ \E t \in Tasks : ReadForUpdate(t)
    \/ \E t \in Tasks : SetSessionState(t)

SpecLease == InitLease /\ [][NextLease]_vars

(***************************************************************************)
(* SpecObs: one user input is posted to a created session while the        *)
(* observers attach.                                                       *)
(***************************************************************************)
Payloads(entries) == [i \in 1..Len(entries) |-> [entries[i] EXCEPT !.id = 0]]

ObsTexts == {"go", "note", "chat"}

InitObs ==
    /\ state = Some(InitialState("core"))
    /\ flowKey = "core"
    /\ seq = 2
    /\ log = CreatedLog
    /\ lock = 0
    /\ \E text \in ObsTexts : tasks = << NewTask("input", ProcessUserInput(text)) >>
    /\ expiries = 0
    /\ registry = "none"
    /\ subs = {"live"}
    /\ inbox = [o \in Observers |-> IF o = "live" THEN Payloads(CreatedLog) ELSE << >>]
    /\ \E since \in [Observers \ {"live"} -> {0, Len(CreatedLog)}] :
         opc = [o \in Observers |->
                  [done |-> 0, fetched |-> << >>,
                   since |-> IF o = "live" THEN 0 ELSE since[o]]]
    /\ NoFanout

NextObs ==
    \/ \E t \in Tasks : AcquireLock(t)
    \/ \E t \in Tasks : ReleaseLock(t)
    \/ \E t \in Tasks : GetSessionState(t)
    \/ \E t \in Tasks : GetFlowConfig(t)
    \/ \E t \in Tasks : ClassifyIntent(t)
    \/ \E t \in Tasks : ReadForUpdate(t)
    \/ \E t \in Tasks : SetSessionState(t)
    \/ \E t \in Tasks : Incr(t)
    \/ \E t \in Tasks : XAdd(t)
    \/ \E t \in Tasks : Publish(t)
    \/ \E t \in Tasks : TimerFire(t)
    \/ \E o \in Observers : Subscribe(o)
    \/ \E o \in Observers : RangeRead(o)

SpecObs == InitObs /\ [][NextObs]_vars

(***************************************************************************)
(* SpecTool: POST /sessions with the tool flow, whose start state calls    *)
(* tool T, while one user input is posted.                                 *)
(***************************************************************************)
InitTool ==
    /\ state = Absent
    /\ flowKey = ""
    /\ seq = 0
    /\ log = << >>
    /\ lock = 0
    /\ tasks = << NewTask("create", PostSessions("tool")),
                  NewTask("input", ProcessUserInput("chat")) >>
    /\ expiries = 0
    /\ registry \in WorkerKinds \cup {"none"}
    /\ subs = {}
    /\ inbox = << >>
    /\ opc = << >>
    /\ NoFanout

NextTool ==
    \/ \E t \in Tasks : CreateSessionState(t)
    \/ \E t \in Tasks : CreateSessionFlow(t)
    \/ \E t \in Tasks : AcquireLock(t)
    \/ \E t \in Tasks : ReleaseLock(t)
    \/ \E t \in Tasks : GetSessionState(t)
    \/ \E t \in Tasks : GetFlowConfig(t)
    \/ \E t \in Tasks : ClassifyIntent(t)
    \/ \E t \in Tasks : ReadForUpdate(t)
    \/ \E t \in Tasks : SetSessionState(t)
    \/ \E t \in Tasks : Incr(t)
    \/ \E t \in Tasks : XAdd(t)
    \/ \E t \in Tasks : Publish(t)
    \/ \E t \in Tasks : TimerFire(t)
    \/ \E t \in Tasks : WorkerReturn(t)
    \/ \E t \in Tasks : WorkerThrow(t)
    \/ \E t \in Tasks : AwaitWorker(t)
    \/ \E t \in Tasks : ToolTimeout(t)

SpecTool == InitTool /\ [][NextTool]_vars

(***************************************************************************)
(* SpecRoute: MaxInputs user inputs are posted to a session that POST      *)
(* /sessions has created with the route flow; tool T is a worker that      *)
(* returns or throws.                                                      *)
(***************************************************************************)
RouteCreatedLog ==
    << [type |-> "fsm.transition", a |-> "R", b |-> "R", seq |-> 1, id |-> StreamId(1)],
       [type |-> "ask", a |-> "qR", b |-> "", seq |-> 2, id |-> StreamId(2)] >>

RouteTexts == {"go", "low", "pick", "chat"}

InitRoute ==
    /\ state = Some(InitialState("route"))
    /\ flowKey = "route"
    /\ seq = 2
    /\ log = RouteCreatedLog
    /\ lock = 0
    /\ \E texts \in [1..MaxInputs -> RouteTexts] :
         tasks = [i \in 1..MaxInputs |-> NewTask("input", ProcessUserInput(texts[i]))]
    /\ expiries = 0
    /\ registry = "function"
    /\ subs = {}
    /\ inbox = << >>
    /\ opc = << >>
    /\ NoFanout

NextRoute ==
    \/ \E t \in Tasks : AcquireLock(t)
    \/ \E t \in Tasks : ReleaseLock(t)
    \/ \E t \in Tasks : GetSessionState(t)
    \/ \E t \in Tasks : GetFlowConfig(t)
    \/ \E t \in Tasks : ClassifyIntent(t)
    \/ \E t \in Tasks : ReadForUpdate(t)
    \/ \E t \in Tasks : SetSessionState(t)
    \/ \E t \in Tasks : Incr(t)
    \/ \E t \in Tasks : XAdd(t)
    \/ \E t \in Tasks : Publish(t)
    \/ \E t \in Tasks : TimerFire(t)
    \/ \E t \in Tasks : WorkerReturn(t)
    \/ \E t \in Tasks : WorkerThrow(t)
    \/ \E t \in Tasks : AwaitWorker(t)
    \/ \E t \in Tasks : ToolTimeout(t)

SpecRoute == InitRoute /\ [][NextRoute]_vars

(***************************************************************************)
(* SpecRetry: POST /sessions with the tool flow, tool T registered as a    *)
(* SafeToolWorker around a worker that returns or throws.                  *)
(***************************************************************************)
InitRetry ==
    /\ state = Absent
    /\ flowKey = ""
    /\ seq = 0
    /\ log = << >>
    /\ lock = 0
    /\ tasks = << NewTask("create", PostSessions("tool")) >>
    /\ expiries = 0
    /\ registry = "safe"
    /\ subs = {}
    /\ inbox = << >>
    /\ opc = << >>
    /\ NoFanout

NextRetry ==
    \/ \E t \in Tasks : CreateSessionState(t)
    \/ \E t \in Tasks : CreateSessionFlow(t)
    \/ \E t \in Tasks : GetSessionState(t)
    \/ \E t \in Tasks : GetFlowConfig(t)
    \/ \E t \in Tasks : ReadForUpdate(t)
    \/ \E t \in Tasks : SetSessionState(t)
    \/ \E t \in Tasks : Incr(t)
    \/ \E t \in Tasks : XAdd(t)
    \/ \E t \in Tasks : Publish(t)
    \/ \E t \in Tasks : TimerFire(t)
    \/ \E t \in Tasks : AttemptReturn(t)
    \/ \E t \in Tasks : AttemptThrow(t)
    \/ \E t \in Tasks : AwaitWorker(t)
    \/ \E t \in Tasks : ToolTimeout(t)

SpecRetry == InitRetry /\ [][NextRetry]_vars

(***************************************************************************)
(* Claims.                                                                 *)
(***************************************************************************)
\* An orchestrator step issued by a caller is in progress: the body of a
\* processUserInput call, or the enterState of POST /sessions.
InStep(t) ==
    /\ Running(t)
    /\ \/ tasks[t].kind = "input" /\ tasks[t].lockValue # 0 /\ Op(t).op # "release"
       \/ tasks[t].kind = "create" /\ Op(t).op \notin {"createState", "createFlow"}

\* C1: at no instant are two orchestrator steps of the session in progress.
C1_OneStepAtATime == Cardinality({t \in Tasks : InStep(t)}) <= 1

\* C2: every write to the state record, the event log or the sequence
\* counter is made by a task that holds the session's lock at that moment.
C2_WritesUnderLock ==
    [][\A t \in DOMAIN tasks :
          (/\ Running(t)
           /\ tasks'[t] # tasks[t]
           /\ Op(t).op \in {"hset", "incr", "xadd"})
          => (lock # 0 /\ lock = tasks[t].lockValue)]_vars

\* C3: the event log read from the beginning holds every emitted event once,
\* the first with seq 1 and each following one with the next seq.
C3_LogInSeqOrder == \A i \in 1..Len(log) : log[i].seq = i

\* C5: currentState is always a key of the states map of the bound flow.
C5_CurrentStateIsKey ==
    (state # Absent /\ flowKey # "")
        => state[1].currentState \in DOMAIN Flows[flowKey].states

AllDone == \A t \in Tasks : ~Running(t)

\* The tool.result and tool.error entries of the log for tool call x.
Outcomes(x) ==
    {j \in 1..Len(log) : log[j].type \in {"tool.result", "tool.error"} /\ log[j].a = x}

\* C4: every tool.call is followed by exactly one tool.result or tool.error
\* with its id: never two, and one once the session's work has ended.
C4_OneOutcomePerCall ==
    \A i \in 1..Len(log) :
        log[i].type = "tool.call"
            => /\ Cardinality(Outcomes(log[i].a)) <= 1
               /\ \A j \in Outcomes(log[i].a) : j > i
               /\ AllDone => Cardinality(Outcomes(log[i].a)) = 1

\* C6: when the processUserInput calls have ended, every context assignment
\* written by a call that returned success is in the session record.
C6_NoLostUpdate ==
    AllDone =>
        \A t \in Tasks :
            (tasks[t].kind = "input" /\ tasks[t].outcome = "ok")
                => \A k \in DOMAIN tasks[t].updates :
                       /\ k \in DOMAIN state[1].context
                       /\ state[1].context[k] = tasks[t].updates[k]

\* C7: a held lock goes away only when its lease runs out or when the caller
\* whose value it stores releases it; a release by any other caller (one whose
\* lease ran out and whose lock was taken again) leaves it.
C7_ReleaseComparesNonce ==
    [][(lock # 0 /\ lock' # lock)
        => \/ expiries' # expiries
           \/ /\ At(lock, "release")
              /\ tasks'[lock] # tasks[lock]
              /\ tasks[lock].lockValue = lock
              /\ lock' = 0]_vars

\* A caller whose lease ran out has ended its withLock scope while another
\* caller holds the lock.
C7_StaleReleaseSeen ==
    \E t \in Tasks : tasks[t].released = "no" /\ lock # 0 /\ lock # t

\* C8: processUserInput called while the lock is held fails at once and has
\* no effect: nothing of it is left to run (no classifier call, no write, no
\* event), and the record, the log, the counter and the lock are as before.
C8_FailFastNoEffect ==
    [][\A t \in DOMAIN tasks :
          (At(t, "acquire") /\ lock # 0 /\ tasks'[t] # tasks[t])
          => /\ tasks'[t].outcome = "failed"
             /\ tasks'[t].todo = << >>
             /\ tasks'[t].lockValue = 0
             /\ tasks'[t].updates = EmptyObj
             /\ UNCHANGED <<state, flowKey, log, seq, lock>>]_vars

\* A call has failed to acquire the lock another caller still holds.
C8_RejectedSeen ==
    \E t \in Tasks :
        /\ tasks[t].kind = "input"
        /\ tasks[t].outcome = "failed"
        /\ tasks[t].lockValue = 0
        /\ lock # 0

\* The seqs observer o has seen: those up to its last seen seq, those of its
\* range read and those delivered to its subscription.
Seen(o) ==
    (1..opc[o].since)
    \cup {opc[o].fetched[i].seq : i \in 1..Len(opc[o].fetched)}
    \cup {inbox[o][i].seq : i \in 1..Len(inbox[o])}

Observed(o) ==
    {opc[o].fetched[i] : i \in 1..Len(opc[o].fetched)}
    \cup {inbox[o][i] : i \in 1..Len(inbox[o])}

\* An entry of the log whose PUBLISH has been done.
Delivered(e) == ~\E t \in Tasks : At(t, "publish") /\ Op(t).ev.seq = e.seq

ObserverDone(o) == opc[o].done = Len(Protocol(o))

\* C9: once the reader that subscribes and then range-reads has done both,
\* every emitted event is among those it has seen, and the events it holds
\* under one seq are one event.
C9_SubscribeThenRead ==
    ObserverDone("sr") =>
        /\ \A i \in 1..Len(log) : Delivered(log[i]) => log[i].seq \in Seen("sr")
        /\ \A e1, e2 \in Observed("sr") : e1.seq = e2.seq => e1 = e2

\* The reader has events from its range read and from its subscription, one
\* of them from both, and the input has ended.
C9_ReaderCaughtUp ==
    /\ ObserverDone("sr")
    /\ AllDone
    /\ Len(log) > Len(CreatedLog)
    /\ \E i \in 1..Len(inbox["sr"]) : \E j \in 1..Len(opc["sr"].fetched) :
           inbox["sr"][i].seq = opc["sr"].fetched[j].seq
    /\ \E i \in 1..Len(inbox["sr"]) :
           \A j \in 1..Len(opc["sr"].fetched) : inbox["sr"][i].seq # opc["sr"].fetched[j].seq

\* C10: once the emissions have ended, the observer that range-read and then
\* subscribed has seen the events the continuously subscribed observer has.
C10_ReadThenSubscribe ==
    (ObserverDone("rs") /\ AllDone) => Seen("rs") = Seen("live")

\* C11: getEventsSince(S, n) with n >= 1 returns no event whose seq is below n.
C11_RangeFromSeq ==
    \A o \in DOMAIN opc :
        opc[o].since >= 1
            => \A i \in 1..Len(opc[o].fetched) : opc[o].fetched[i].seq >= opc[o].since

\* The call x has a tool.error from executeTool's timeout.
TimedOut(x) ==
    \E j \in 1..Len(log) :
        log[j].type = "tool.error" /\ log[j].a = x /\ log[j].b = "timeout"

ToolErrors(x) == {j \in 1..Len(log) : log[j].type = "tool.error" /\ log[j].a = x}

\* C12: a tool call that has timed out has exactly one tool.error, and the
\* session stays in the state whose onEnter issued the call.
C12_TimeoutKeepsState ==
    \A i \in 1..Len(log) :
        (log[i].type = "tool.call" /\ TimedOut(log[i].a))
            => /\ Cardinality(ToolErrors(log[i].a)) = 1
               /\ state # Absent
               /\ state[1].currentState = Flows["tool"].start

ToolCalls(x) == {j \in 1..Len(log) : log[j].type = "tool.call" /\ log[j].a = x}

ToolResults(x) == {j \in 1..Len(log) : log[j].type = "tool.result" /\ log[j].a = x}

\* C13: SafeToolWorker invokes the worker it wraps at most MaxRetries times,
\* returns the result of the first attempt that succeeds and fails only after
\* MaxRetries failed attempts; the call has one tool.call and at most one
\* tool.error, and after the failure of all attempts it has exactly one
\* tool.error, no tool.result, and currentState is the state that issued it.
C13_SafeWorkerRetries ==
    /\ \A t \in Tasks :
          tasks[t].kind = "worker"
              => /\ tasks[t].calls <= MaxRetries
                 /\ tasks[t].outcome = "ok" => (tasks[t].val = "ok" /\ tasks[t].calls >= 1)
                 /\ tasks[t].outcome = "failed" => tasks[t].calls = MaxRetries
    /\ \A i \in 1..Len(log) :
          log[i].type = "tool.call"
              => /\ Cardinality(ToolCalls(log[i].a)) = 1
                 /\ Cardinality(ToolErrors(log[i].a)) <= 1
    /\ \A t \in Tasks :
          (AllDone /\ tasks[t].kind = "worker" /\ tasks[t].outcome = "failed")
              => /\ \E i \in 1..Len(log) :
                        /\ log[i].type = "tool.call"
                        /\ Cardinality(ToolErrors(log[i].a)) = 1
                        /\ ToolResults(log[i].a) = {}
                 /\ state[1].currentState = Flows["tool"].start

\* All MaxRetries attempts have failed and executeTool has reported it.
C13_AllAttemptsFailed ==
    /\ AllDone
    /\ \E t \in Tasks :
          tasks[t].kind = "worker" /\ tasks[t].outcome = "failed"
          /\ tasks[t].calls = MaxRetries
    /\ \E j \in 1..Len(log) : log[j].type = "tool.error" /\ log[j].b = "error"

\* C14: while a tool call has a tool.error, the record is as it was when the
\* tool.call was stored (currentState the issuing state, context and
\* lastToolResult untouched) and the log has no fsm.transition out of the
\* issuing state.
C14_ErrorKeepsRecord ==
    \A i \in 1..Len(log) :
        (log[i].type = "tool.call" /\ ToolErrors(log[i].a) # {})
            => /\ state # Absent
               /\ state[1].currentState = Flows["tool"].start
               /\ state[1].context = EmptyObj
               /\ state[1].lastToolResult = Absent
               /\ \A j \in 1..Len(log) :
                      log[j].type = "fsm.transition" => log[j].b = Flows["tool"].start

\* The fsm.transition entries of the log that leave state a.
Leaving(a) ==
    {j \in 1..Len(log) : log[j].type = "fsm.transition" /\ log[j].a = a /\ log[j].b # a}

ContextUpdates == {log[j].a : j \in {k \in 1..Len(log) : log[k].type = "state.updated"}}

\* C15: of the transitions of the current state only the first that matches
\* is executed: the 'go' transition declared after the matching one never
\* assigns z, the second onToolResult transition never assigns r = 2, and one
\* input or tool result causes one transition out of the state.
C15_FirstMatchOnly ==
    /\ \A c \in ContextUpdates \cup {state[1].context} :
          /\ "z" \notin DOMAIN c
          /\ "r" \in DOMAIN c => c["r"] = 1
    /\ Cardinality(Leaving("R")) <= 1
    /\ Cardinality(Leaving("Hi")) <= 1

\* The input 'go' and the tool result have each run their first matching
\* transition.
C15_BothRouted ==
    /\ state[1].currentState = "Done"
    /\ state[1].context = ("n" :> 4) @@ ("r" :> 1)
    /\ Leaving("R") # {}
    /\ Leaving("Hi") # {}

\* The states a transition can enter, and the transitions of state a that
\* carry an assign clause and can enter b.
Targets(tr) ==
    (IF tr.to # "" THEN {tr.to} ELSE {})
    \cup (IF tr.branch # Absent
          THEN {tr.branch[1][k].to : k \in 1..Len(tr.branch[1])} ELSE {})

AssigningInto(a, b) ==
    LET st == Flows[flowKey].states[a] IN
    IF st.transitions = Absent THEN {}
    ELSE {k \in 1..Len(st.transitions[1]) :
             st.transitions[1][k].assign # Absent /\ b \in Targets(st.transitions[1][k])}

AssignKeys(a, k) == DOMAIN Flows[flowKey].states[a].transitions[1][k].assign[1]

\* An fsm.transition event from one state into another.
Move(e) == e.type = "fsm.transition" /\ e.a # e.b

\* C16: the fsm.transition of a state entered by a transition with an assign
\* clause has the state.updated of that assign before it in the log, and
\* while it is being emitted the record's context holds the assigned keys.
C16_UpdatedBeforeTransition ==
    /\ \A j \in 1..Len(log) :
          Move(log[j])
              => \E k \in AssigningInto(log[j].a, log[j].b) : \E i \in 1..(j - 1) :
                    /\ log[i].type = "state.updated"
                    /\ AssignKeys(log[j].a, k) \subseteq DOMAIN log[i].a
    /\ \A t \in Tasks :
          (/\ Running(t)
           /\ Op(t).op \in {"incr", "xadd", "publish"}
           /\ Move(Op(t).ev))
              => \E k \in AssigningInto(Op(t).ev.a, Op(t).ev.b) :
                    AssignKeys(Op(t).ev.a, k) \subseteq DOMAIN state[1].context

\* The fsm.transition from R to Hi is in the log, after the state.updated
\* that carries n = 4.
C16_UpdatedThenEntered ==
    \E j \in 1..Len(log) : \E i \in 1..(j - 1) :
        /\ log[i].type = "state.updated"
        /\ log[i].a = ("n" :> 4)
        /\ log[j].type = "fsm.transition"
        /\ log[j].a = "R"
        /\ log[j].b = "Hi"

\* The onEnter actions declared by a state of the flow, and whether a log
\* entry is the event that executeAction emits first for an action.
OnEnter(b) ==
    IF Flows[flowKey].states[b].onEnter = Absent THEN << >>
    ELSE Flows[flowKey].states[b].onEnter[1]

EventOf(e, action) ==
    IF action.type = "tool"
    THEN e.type = "tool.call" /\ e.b = action.val
    ELSE e.type = action.type /\ (action.type # "hangup" => e.a = action.val)

Transitions == {j \in 1..Len(log) : log[j].type = "fsm.transition"}

\* The log entries between an fsm.transition and the next one.
Entry(j) == {p \in (j + 1)..Len(log) : \A m \in Transitions : ~(j < m /\ m < p)} \ Transitions

\* C17: enterState(next) has set currentState to next when it emits
\* fsm.transition, whose 'from' is the state the session was in and whose
\* 'to' is next; the onEnter events of next follow that fsm.transition in
\* the log, in declaration order.  An ask is also emitted by
\* reAskCurrentQuestion, so only the other events are traced back to an entry.
C17_EnterThenOnEnter ==
    /\ \A j \in Transitions :
          /\ \A p \in Entry(j) : \A k \in 1..Len(OnEnter(log[j].b)) :
                EventOf(log[p], OnEnter(log[j].b)[k])
                    => \A h \in 1..(k - 1) : \E q \in Entry(j) :
                          q < p /\ EventOf(log[q], OnEnter(log[j].b)[h])
          /\ \A i \in Transitions :
                (i < j /\ \A m \in Transitions : ~(i < m /\ m < j))
                    => log[j].a = log[i].b
          /\ (\A i \in Transitions : j <= i) => log[j].a = Flows[flowKey].start
    /\ \A p \in 1..Len(log) : \A b \in DOMAIN Flows[flowKey].states :
          (\E k \in 1..Len(OnEnter(b)) :
                OnEnter(b)[k].type # "ask" /\ EventOf(log[p], OnEnter(b)[k]))
              => \E j \in Transitions :
                    /\ p \in Entry(j)
                    /\ \E k \in 1..Len(OnEnter(log[j].b)) :
                          EventOf(log[p], OnEnter(log[j].b)[k])
    /\ \A t \in Tasks :
          (/\ Running(t)
           /\ Op(t).op \in {"incr", "xadd", "publish"}
           /\ Op(t).ev.type = "fsm.transition")
              => state[1].currentState = Op(t).ev.b

\* State Hi was entered from R and both of its onEnter actions have
\* emitted their events.
C17_EnteredHi ==
    \E j \in Transitions :
        /\ log[j].a = "R"
        /\ log[j].b = "Hi"
        /\ \E p, q \in Entry(j) :
              /\ p < q
              /\ EventOf(log[p], OnEnter("Hi")[1])
              /\ EventOf(log[q], OnEnter("Hi")[2])

\* The transitions of state a that carry both branch and to.
BranchAndTo(a) ==
    LET st == Flows[flowKey].states[a] IN
    IF st.transitions = Absent THEN {}
    ELSE {k \in 1..Len(st.transitions[1]) :
             st.transitions[1][k].branch # Absent /\ st.transitions[1][k].to # ""}

\* C18: a state named by the 'to' of a transition that also carries branch
\* is entered only if one of that transition's branches names it.
C18_BranchAloneDecides ==
    \A j \in Transitions :
        Move(log[j])
            => \A k \in BranchAndTo(log[j].a) :
                  LET tr == Flows[flowKey].states[log[j].a].transitions[1][k] IN
                  log[j].b = tr.to
                      => \E i \in 1..Len(tr.branch[1]) : tr.branch[1][i].to = log[j].b

\* The state that the branches of transition k of state a select on the
\* context ctx: the first branch whose guard holds, else the direct 'to'.
Selected(a, k, ctx) ==
    LET tr == Flows[flowKey].states[a].transitions[1][k]
        br == tr.branch[1]
        holds == {i \in 1..Len(br) : Evaluate(br[i].when, ctx)}
    IN IF holds = {} THEN tr.to
       ELSE br[CHOOSE i \in holds : \A h \in holds : i <= h].to

Branched(a) ==
    LET st == Flows[flowKey].states[a] IN
    IF st.transitions = Absent THEN {}
    ELSE {k \in 1..Len(st.transitions[1]) : st.transitions[1][k].branch # Absent}

\* The last state.updated entry before position j of the log.
LastUpdate(j) ==
    {i \in 1..(j - 1) :
        /\ log[i].type = "state.updated"
        /\ \A m \in (i + 1)..(j - 1) : log[m].type # "state.updated"}

\* C19: the guard "n > 0" of the first 'go' transition is evaluated on the
\* context before its assign of n = 7, so that transition is never taken
\* and 7 is never assigned; the state entered from R is the one selected by
\* the branches of a transition on the context after its assign was merged.
C19_GuardBeforeBranchAfter ==
    /\ \A c \in ContextUpdates \cup {state[1].context} :
          "n" \in DOMAIN c => c["n"] # 7
    /\ \A j \in Transitions :
          (Move(log[j]) /\ log[j].a = "R")
              => \E i \in LastUpdate(j) : \E k \in Branched("R") :
                    /\ DOMAIN Flows[flowKey].states["R"].transitions[1][k].assign[1]
                          \subseteq DOMAIN log[i].a
                    /\ log[j].b = Selected("R", k, log[i].a)

\* The intent 'go' left R for Hi with n = 4: the guarded transition was
\* passed over and the first branch of the second one was taken.
C19_GuardPassedBranchTaken ==
    /\ state[1].lastIntent # Absent
    /\ state[1].lastIntent[1].name = "go"
    /\ state[1].currentState = "Hi"
    /\ state[1].context = ("n" :> 4)

\* The log entries of one type, and the user inputs that were processed to
\* the end.
Entries(type) == {j \in 1..Len(log) : log[j].type = type}

Processed == {t \in Tasks : tasks[t].kind = "input" /\ tasks[t].outcome = "ok"}

\* C20: in a session that rests in the terminal state B, which declares no
\* transitions, every processed user input has emitted one
\* intent.unhandled, and there are no more re-prompts than unhandled intents.
C20_OneUnhandledPerInput ==
    AllDone
        => /\ Cardinality(Entries("intent.unhandled")) = Cardinality(Processed)
           /\ Cardinality(Entries("ask")) - 1 <= Cardinality(Entries("intent.unhandled"))

(***************************************************************************)
(* SpecReask: MaxCallers user inputs are posted to a created session of    *)
(* the routing flow, so that a soft re-prompt scheduled by one input can   *)
(* fire after another input has moved the session.                         *)
(***************************************************************************)
ReaskTexts == {"chat", "go"}

InitReask ==
    /\ state = Some(InitialState("route"))
    /\ flowKey = "route"
    /\ seq = 2
    /\ log = RouteCreatedLog
    /\ lock = 0
    /\ \E texts \in [1..MaxCallers -> ReaskTexts] :
         tasks = [i \in 1..MaxCallers |-> NewTask("input", ProcessUserInput(texts[i]))]
    /\ expiries = 0
    /\ registry = "function"
    /\ subs = {}
    /\ inbox = << >>
    /\ opc = << >>
    /\ NoFanout

SpecReask == InitReask /\ [][NextRoute]_vars

\* The ask action of the state the session is in, if any.
CurrentAsk ==
    IF state = Absent THEN Absent
    ELSE FindAsk(OnEnter(state[1].currentState), 1)

\* C21: the ask that a soft re-prompt emits is the ask action of the state
\* the session is in when it is emitted.
C21_ReaskFollowsSession ==
    \A t \in Tasks :
        (/\ tasks[t].kind = "timer"
         /\ Running(t)
         /\ Op(t).op \in {"incr", "xadd", "publish"}
         /\ Op(t).ev.type = "ask")
            => /\ CurrentAsk # Absent
               /\ Op(t).ev.a = CurrentAsk[1].val

(***************************************************************************)
(* SpecGone: a session of the routing flow rests in R after an unhandled   *)
(* intent, its soft re-prompt still scheduled.  DELETE /sessions/S cleans  *)
(* the session up, and up to MaxCallers user inputs are posted after the   *)
(* cleanup has returned.                                                   *)
(***************************************************************************)
UnhandledState == [InitialState("route") EXCEPT !.lastIntent = Some(Intent("chat"))]

UnhandledLog ==
    RouteCreatedLog \o
    << [type |-> "intent.unhandled", a |-> "chat", b |-> "R", seq |-> 3, id |-> StreamId(3)] >>

\* cleanupSession: one DEL of the state, flow, stream, lock and counter keys.
CleanupSession(t) ==
    /\ At(t, "del")
    /\ state' = Absent
    /\ flowKey' = ""
    /\ log' = << >>
    /\ lock' = 0
    /\ seq' = 0
    /\ tasks' = Next1(tasks, t, << >>)
    /\ UNCHANGED <<expiries, registry, observers>>

Cleaned == \E t \in Tasks : tasks[t].kind = "cleanup" /\ ~Running(t)

Inputs == {t \in Tasks : tasks[t].kind = "input"}

\* POST /sessions/S/input arrives after the cleanup has returned.
PostInput ==
    /\ Cleaned
    /\ Cardinality(Inputs) < MaxCallers
    /\ \E text \in ReaskTexts :
         tasks' = Append(tasks, NewTask("input", ProcessUserInput(text)))
    /\ UNCHANGED <<store, expiries, registry, observers>>

InitGone ==
    /\ state = Some(UnhandledState)
    /\ flowKey = "route"
    /\ seq = 3
    /\ log = UnhandledLog
    /\ lock = 0
    /\ tasks = << NewTask("cleanup", << [op |-> "del"] >>),
                  NewTask("timer", << [op |-> "sleep"],
                                      [op |-> "reAsk", session |-> UnhandledState,
                                       flow |-> "route"] >>) >>
    /\ expiries = 0
    /\ registry = "function"
    /\ subs = {}
    /\ inbox = << >>
    /\ opc = << >>
    /\ NoFanout

NextGone ==
    \/ \E t \in Tasks : CleanupSession(t)
    \/ PostInput
    \/ \E t \in Tasks : AcquireLock(t)
    \/ \E t \in Tasks : ReleaseLock(t)
    \/ LeaseExpire
    \/ \E t \in Tasks : GetSessionState(t)
    \/ \E t \in Tasks : GetFlowConfig(t)
    \/ \E t \in Tasks : Incr(t)
    \/ \E t \in Tasks : XAdd(t)
    \/ \E t \in Tasks : Publish(t)
    \/ \E t \in Tasks : TimerFire(t)

SpecGone == InitGone /\ [][NextGone]_vars

\* C22: once the session has been cleaned up, the re-prompt timers that
\* fire append nothing to its log and leave its state, flow and counter
\* keys absent.
C22_TimersTolerateGone ==
    Cleaned => /\ state = Absent
               /\ flowKey = ""
               /\ log = << >>
               /\ seq = 0

\* C30: cleanupSession leaves the state, flow, log, lock and counter keys
\* absent; no step of a processUserInput posted afterwards creates the
\* state, the flow, a log entry or the counter, and it ends in failure
\* without leaving the lock it acquired.
C30_GoneStaysGone ==
    [][/\ \A t \in DOMAIN tasks :
            (tasks[t].kind = "cleanup" /\ tasks'[t] # tasks[t])
                => /\ state' = Absent
                   /\ flowKey' = ""
                   /\ log' = << >>
                   /\ lock' = 0
                   /\ seq' = 0
       /\ \A t \in DOMAIN tasks :
            (tasks[t].kind = "input" /\ tasks'[t] # tasks[t])
                => /\ UNCHANGED <<state, flowKey, seq, log>>
                   /\ state = Absent
                   /\ tasks'[t].todo = << >>
                         => (tasks'[t].outcome = "failed" /\ lock' # t)]_vars

\* An input posted after the cleanup took the lock, failed because the
\* session was not found and released the lock.
C30_NotFoundSeen ==
    \E t \in Inputs :
        /\ tasks[t].outcome = "failed"
        /\ tasks[t].lockValue = t
        /\ tasks[t].released = "yes"
        /\ state = Absent
        /\ lock = 0

(***************************************************************************)
(* SpecConf: MaxInputs user inputs are posted to a created session of the  *)
(* routing flow; "go" and "go?" are classified as the intent go with the   *)
(* same slots and different confidence.                                    *)
(***************************************************************************)
ConfTexts == {"go", "go?", "chat"}

Confidences == {Intent(text).confidence : text \in ConfTexts}

InitConf ==
    /\ state = Some(InitialState("route"))
    /\ flowKey = "route"
    /\ seq = 2
    /\ log = RouteCreatedLog
    /\ lock = 0
    /\ \E texts \in [1..MaxInputs -> ConfTexts] :
         tasks = [i \in 1..MaxInputs |-> NewTask("input", ProcessUserInput(texts[i]))]
    /\ expiries = 0
    /\ registry = "function"
    /\ subs = {}
    /\ inbox = << >>
    /\ opc = << >>
    /\ NoFanout

SpecConf == InitConf /\ [][NextRoute]_vars

\* C23: at every classification, processIntent continues in the same way
\* (same transition, same assignments, same target, or the same unhandled
\* intent) for every confidence the classifier could have attached to the
\* intent's name and slots.
C23_ConfidenceIgnored ==
    [][\A t \in DOMAIN tasks :
          (At(t, "classify") /\ tasks'[t] # tasks[t])
              => \A c \in Confidences :
                    ProcessIntent([Intent(Op(t).text) EXCEPT !.confidence = c],
                                  Op(t).session, Op(t).flow)
                    = ProcessIntent(Intent(Op(t).text), Op(t).session, Op(t).flow)]_vars

\* The intent go, classified with the lower confidence, took the session
\* from R through Hi to Done with n = 4.
C23_LowConfidenceRouted ==
    /\ state # Absent
    /\ state[1].lastIntent # Absent
    /\ state[1].lastIntent[1].name = "go"
    /\ state[1].lastIntent[1].confidence = 6
    /\ state[1].currentState = "Done"
    /\ state[1].context = ("n" :> 4) @@ ("r" :> 1)

(***************************************************************************)
(* WebSocketConnectionManager (api-routes.ts): the fan-out of the events   *)
(* published on pub:call:<session> to the WebSockets attached to that      *)
(* session.  The model's session is "S"; "T" is another session of the     *)
(* same server, on whose topic nothing is published.  A socket is          *)
(* [session, readyState, handlers, received]: handlers tells whether       *)
(* addConnection has registered its close and error handlers, received is  *)
(* what was sent to the client while the socket was open.                  *)
(***************************************************************************)
MaxSockets == 2

Sessions == {"S", "T"}

Started(s) == [type |-> "session.started", seq |-> 0, session |-> s]
Message(ev) == [type |-> ev.type, seq |-> ev.seq, session |-> "S"]

Without(f, k) == [x \in DOMAIN f \ {k} |-> f[x]]
With(f, k, v) == [x \in DOMAIN f \cup {k} |-> IF x = k THEN v ELSE f[x]]

\* The sockets of a session in the connections map; none when it has no entry.
Connected(conns, s) == IF s \in DOMAIN conns THEN conns[s] ELSE {}

\* The open Redis subscribers on the channel of session s.
OpenOn(chs, s) == {i \in DOMAIN chs : chs[i].open /\ chs[i].session = s}

\* ws.send: the message reaches the client only while the socket is open.
Send(socks, w, msg) ==
    IF socks[w].readyState = "open"
    THEN [socks EXCEPT ![w].received = Append(@, msg)]
    ELSE socks

\* addConnection after startSessionSubscription: session.started is sent
\* and the close and error handlers are registered.
Welcome(socks, w) == [Send(socks, w, Started(socks[w].session)) EXCEPT ![w].handlers = TRUE]

\* handleConnection -> addConnection, up to its await: the socket joins the
\* session's set; the first socket of the set waits for the subscription.
AddConnection(s) ==
    /\ Len(sockets) < MaxSockets
    /\ LET w == Len(sockets) + 1
           socks == Append(sockets, [session |-> s, readyState |-> "open",
                                     handlers |-> FALSE, received |-> << >>])
           set == Connected(connections, s) \cup {w}
       IN /\ connections' = With(connections, s, set)
          /\ IF Cardinality(set) = 1
             THEN /\ starting' = starting \cup {w}
                  /\ sockets' = socks
             ELSE /\ starting' = starting
                  /\ sockets' = Welcome(socks, w)
    /\ UNCHANGED <<store, tasks, expiries, registry, subs, inbox, opc, subscribers, channels>>

\* startSessionSubscription: subscribeToSession has subscribed a new Redis
\* client to the channel and registered its message handler; the subscriber
\* is stored, and addConnection goes on.
StartSessionSubscription(w) ==
    /\ w \in starting
    /\ LET s == sockets[w].session
           id == Len(channels) + 1
       IN /\ channels' = Append(channels, [session |-> s, open |-> TRUE])
          /\ inbox' = Append(inbox, << >>)
          /\ subs' = IF s = "S" THEN subs \cup {id} ELSE subs
          /\ subscribers' = With(subscribers, s, id)
    /\ sockets' = Welcome(sockets, w)
    /\ starting' = starting \ {w}
    /\ UNCHANGED <<store, tasks, expiries, registry, opc, connections>>

\* removeConnection: the socket leaves the set; when the set is empty the
\* session's stored subscriber is disconnected and both map entries go.
RemoveLast(conns, s, w) == Connected(conns, s) \ {w} = {}

DisconnectAlways(conns, s, w) ==
    IF s \in DOMAIN conns /\ s \in DOMAIN subscribers THEN {subscribers[s]} ELSE {}

Disconnected(conns, s, w) ==
    IF s \in DOMAIN conns /\ RemoveLast(conns, s, w) /\ s \in DOMAIN subscribers
    THEN {subscribers[s]} ELSE {}

RemoveConnection(w) ==
    LET s == sockets[w].session
        gone == Disconnected(connections, s, w)
    IN /\ connections' =
            IF s \notin DOMAIN connections THEN connections
            ELSE IF RemoveLast(connections, s, w) THEN Without(connections, s)
            ELSE [connections EXCEPT ![s] = @ \ {w}]
       /\ subscribers' = IF gone = {} THEN subscribers ELSE Without(subscribers, s)
       /\ channels' = [i \in DOMAIN channels |->
                           IF i \in gone THEN [channels[i] EXCEPT !.open = FALSE]
                           ELSE channels[i]]
       /\ subs' = subs \ gone
       /\ inbox' = [i \in DOMAIN inbox |-> IF i \in gone THEN << >> ELSE inbox[i]]

\* The client starts to close the connection: readyState is CLOSING until
\* the socket has closed.
SocketClosing(w) ==
    /\ w \in DOMAIN sockets
    /\ sockets[w].readyState = "open"
    /\ sockets' = [sockets EXCEPT ![w].readyState = "closing"]
    /\ UNCHANGED <<store, tasks, expiries, registry, subs, inbox, opc,
                   connections, subscribers, channels, starting>>

\* A transport error on an open socket: the 'error' event runs the handler
\* if it is registered, and the socket goes on to close.
SocketError(w) ==
    /\ w \in DOMAIN sockets
    /\ sockets[w].readyState = "open"
    /\ sockets' = [sockets EXCEPT ![w].readyState = "closing"]
    /\ IF sockets[w].handlers
       THEN RemoveConnection(w)
       ELSE UNCHANGED <<connections, subscribers, channels, subs, inbox>>
    /\ UNCHANGED <<store, tasks, expiries, registry, opc, starting>>

\* The socket has closed: the 'close' event runs the handler if it is
\* registered by then.
SocketClosed(w) ==
    /\ w \in DOMAIN sockets
    /\ sockets[w].readyState = "closing"
    /\ sockets' = [sockets EXCEPT ![w].readyState = "closed"]
    /\ IF sockets[w].handlers
       THEN RemoveConnection(w)
       ELSE UNCHANGED <<connections, subscribers, channels, subs, inbox>>
    /\ UNCHANGED <<store, tasks, expiries, registry, opc, starting>>

\* A subscriber's message handler runs broadcastToSession for the next
\* event it received: open sockets of the session are sent the event; the
\* sockets that are not open, and those whose send throws, are deleted from
\* the set.
BroadcastToSession(i) ==
    /\ i \in DOMAIN channels
    /\ channels[i].open
    /\ inbox[i] # << >>
    /\ LET s == channels[i].session
           set == Connected(connections, s)
           closed == {w \in set : sockets[w].readyState # "open"}
       IN \E failed \in SUBSET (set \ closed) :
             LET dead == closed \cup failed IN
             /\ sockets' = [w \in DOMAIN sockets |->
                               IF w \in set \ dead
                               THEN [sockets[w] EXCEPT
                                       !.received = Append(@, Message(Head(inbox[i])))]
                               ELSE sockets[w]]
             /\ connections' = IF set = {} THEN connections
                               ELSE [connections EXCEPT ![s] = set \ dead]
    /\ inbox' = [inbox EXCEPT ![i] = Tail(@)]
    /\ UNCHANGED <<store, tasks, expiries, registry, subs, opc, subscribers, channels,
                   starting>>

(***************************************************************************)
(* SpecFan: WebSockets attach to and detach from the sessions while the    *)
(* soft re-prompt of session S, scheduled after an unhandled intent,       *)
(* emits its say and its ask.                                              *)
(***************************************************************************)
InitFan ==
    /\ state = Some(UnhandledState)
    /\ flowKey = "route"
    /\ seq = 3
    /\ log = UnhandledLog
    /\ lock = 0
    /\ tasks = << NewTask("timer", << [op |-> "sleep"],
                                      [op |-> "reAsk", session |-> UnhandledState,
                                       flow |-> "route"] >>) >>
    /\ expiries = 0
    /\ registry = "function"
    /\ subs = {}
    /\ inbox = << >>
    /\ opc = << >>
    /\ NoFanout

NextFan ==
    \/ \E s \in Sessions : AddConnection(s)
    \/ \E w \in starting : StartSessionSubscription(w)
    \/ \E w \in DOMAIN sockets : SocketClosing(w)
    \/ \E w \in DOMAIN sockets : SocketError(w)
    \/ \E w \in DOMAIN sockets : SocketClosed(w)
    \/ \E i \in DOMAIN channels : BroadcastToSession(i)
    \/ \E t \in Tasks : Incr(t)
    \/ \E t \in Tasks : XAdd(t)
    \/ \E t \in Tasks : Publish(t)
    \/ \E t \in Tasks : TimerFire(t)

SpecFan == InitFan /\ [][NextFan]_vars

\* No subscription is being opened, no socket is between closing and
\* closed, and every subscriber has handled the events it received.
Quiet ==
    /\ starting = {}
    /\ \A w \in DOMAIN sockets : sockets[w].readyState # "closing"
    /\ \A i \in DOMAIN channels : channels[i].open => inbox[i] = << >>

\* C24: when the fan-out layer is at rest, a session has an open
\* subscription exactly if its set of sockets is not empty, and never more
\* than one.
C24_SubscriptionIffObservers ==
    Quiet => \A s \in Sessions :
                /\ Cardinality(OpenOn(channels, s)) <= 1
                /\ OpenOn(channels, s) # {} <=> Connected(connections, s) # {}

\* The places in what socket w received that hold events of a session.
Events(w) == {k \in 1..Len(sockets[w].received) : sockets[w].received[k].seq > 0}

\* C25: no socket is sent an event twice, and no socket is sent an event of
\* a session other than the one it attached to.
C25_DeliveredOnce ==
    \A w \in DOMAIN sockets :
        /\ \A k \in 1..Len(sockets[w].received) :
              sockets[w].received[k].session = sockets[w].session
        /\ \A j, k \in Events(w) :
              sockets[w].received[j].seq = sockets[w].received[k].seq => j = k

\* C26: the first message a socket receives is session.started of its
\* session.
C26_StartedFirst ==
    \A w \in DOMAIN sockets :
        sockets[w].received # << >>
            => sockets[w].received[1] = Started(sockets[w].session)

\* The sockets of a session's set that are open and have been welcomed.
Receiving(conns, socks, s) ==
    {w \in Connected(conns, s) : socks[w].readyState = "open" /\ socks[w].handlers}

ValidTransition(tr) ==
    /\ tr.onIntent # "" \/ tr.onToolResult # "" \/ tr.branch # Absent
    /\ tr.branch = Absent => tr.to # ""

Validate(flow) ==
    /\ Flows[flow].start # ""
    /\ \A name \in DOMAIN Flows[flow].states :
          LET st == Flows[flow].states[name] IN
          st.transitions # Absent
              => \A k \in 1..Len(st.transitions[1]) : ValidTransition(st.transitions[1][k])
    /\ StatesLookup(flow, Flows[flow].start) # Absent

\* POST /sessions, up to its first await: a flow that fails validation is
\* answered with 400 before anything is created.
PostSession(t) ==
    /\ At(t, "post")
    /\ tasks' = IF Validate(Op(t).flow)
                THEN Next1(tasks, t, PostSessions(Op(t).flow))
                ELSE [tasks EXCEPT ![t].todo = << >>, ![t].outcome = "failed"]
    /\ UNCHANGED <<store, expiries, registry, observers>>

Created == \E t \in Tasks : tasks[t].kind = "create" /\ tasks[t].outcome = "ok"

\* POST /sessions/S/input by the client that was answered with the session id.
PostInputCreated ==
    /\ Created
    /\ Cardinality(Inputs) < MaxInputs
    /\ \E text \in {"go", "low", "chat"} :
         tasks' = Append(tasks, NewTask("input", ProcessUserInput(text)))
    /\ UNCHANGED <<store, expiries, registry, observers>>

(***************************************************************************)
(* SpecCreate: POST /sessions with a flow whose start or whose transition  *)
(* targets are not keys of states, followed by up to MaxInputs user        *)
(* inputs.                                                                 *)
(***************************************************************************)
CreateFlows == {"core", "nostart", "protostart", "badto"}

InitCreate ==
    /\ state = Absent
    /\ flowKey = ""
    /\ seq = 0
    /\ log = << >>
    /\ lock = 0
    /\ \E flow \in CreateFlows :
         tasks = << NewTask("create", << [op |-> "post", flow |-> flow] >>) >>
    /\ expiries = 0
    /\ registry = "none"
    /\ subs = {}
    /\ inbox = << >>
    /\ opc = << >>
    /\ NoFanout

NextCreate ==
    \/ \E t \in Tasks : PostSession(t)
    \/ \E t \in Tasks : CreateSessionState(t)
    \/ \E t \in Tasks : CreateSessionFlow(t)
    \/ PostInputCreated
    \/ \E t \in Tasks : AcquireLock(t)
    \/ \E t \in Tasks : ReleaseLock(t)
    \/ \E t \in Tasks : GetSessionState(t)
    \/ \E t \in Tasks : GetFlowConfig(t)
    \/ \E t \in Tasks : ClassifyIntent(t)
    \/ \E t \in Tasks : ReadForUpdate(t)
    \/ \E t \in Tasks : SetSessionState(t)
    \/ \E t \in Tasks : Incr(t)
    \/ \E t \in Tasks : XAdd(t)
    \/ \E t \in Tasks : Publish(t)
    \/ \E t \in Tasks : TimerFire(t)

SpecCreate == InitCreate /\ [][NextCreate]_vars

\* The transition and branch targets of a flow that are not keys of its states.
UnknownTargets(flow) ==
    {to \in {"A", "X", "Nowhere", "toString"} :
        /\ to \notin DOMAIN Flows[flow].states
        /\ \E name \in DOMAIN Flows[flow].states :
              LET st == Flows[flow].states[name] IN
              /\ st.transitions # Absent
              /\ \E k \in 1..Len(st.transitions[1]) :
                    LET tr == st.transitions[1][k] IN
                    \/ tr.branch = Absent /\ tr.to = to
                    \/ /\ tr.branch # Absent
                       /\ \E b \in 1..Len(tr.branch[1]) : tr.branch[1][b].to = to}

\* C28: creating a session with a flow whose start is not a key of states
\* fails validation (the request never gets to createSession and no session
\* is stored with such a flow), and on that failure there is no state record,
\* flow record, log entry or counter.
C28_BadStartCreatesNothing ==
    \A t \in Tasks : tasks[t].kind = "create" =>
        /\ (Running(t) /\ Op(t).op \in {"createState", "createFlow"})
              => Flows[Op(t).flow].start \in DOMAIN Flows[Op(t).flow].states
        /\ flowKey # "" => Flows[flowKey].start \in DOMAIN Flows[flowKey].states
        /\ (tasks[t].outcome = "failed" /\ flowKey = "")
              => state = Absent /\ log = << >> /\ seq = 0

\* C29: a flow with a transition or branch target that is not a key of its
\* states is rejected at session creation, so in a running session no input
\* fails inside its locked section on an unknown target.
C29_NoUnknownTargetAtRunTime ==
    \A t \in Inputs :
        (flowKey # "" /\ UnknownTargets(flowKey) # {} /\ tasks[t].outcome = "failed")
            => tasks[t].lockValue = 0

(***************************************************************************)
(* SpecRecreate: POST /sessions naming the id of a live session (flow      *)
(* "core", after the input go), next to up to MaxInputs user inputs.       *)
(***************************************************************************)
RecreateFlows == {"core", "route"}

\* POST /sessions/S/input on the live session.
PostInputLive ==
    /\ Cardinality(Inputs) < MaxInputs
    /\ \E text \in {"go", "note", "chat"} :
         tasks' = Append(tasks, NewTask("input", ProcessUserInput(text)))
    /\ UNCHANGED <<store, expiries, registry, observers>>

InitRecreate ==
    /\ state = Some(AfterGoState)
    /\ flowKey = "core"
    /\ seq = 5
    /\ log = AfterGoLog
    /\ lock = 0
    /\ \E flow \in RecreateFlows :
         tasks = << NewTask("create", << [op |-> "post", flow |-> flow] >>) >>
    /\ expiries = 0
    /\ registry = "none"
    /\ subs = {}
    /\ inbox = << >>
    /\ opc = << >>
    /\ NoFanout

NextRecreate ==
    \/ \E t \in Tasks : PostSession(t)
    \/ \E t \in Tasks : CreateSessionState(t)
    \/ \E t \in Tasks : CreateSessionFlow(t)
    \/ PostInputLive
    \/ \E t \in Tasks : AcquireLock(t)
    \/ \E t \in Tasks : ReleaseLock(t)
    \/ \E t \in Tasks : GetSessionState(t)
    \/ \E t \in Tasks : GetFlowConfig(t)
    \/ \E t \in Tasks : ClassifyIntent(t)
    \/ \E t \in Tasks : ReadForUpdate(t)
    \/ \E t \in Tasks : SetSessionState(t)
    \/ \E t \in Tasks : Incr(t)
    \/ \E t \in Tasks : XAdd(t)
    \/ \E t \in Tasks : Publish(t)
    \/ \E t \in Tasks : TimerFire(t)

SpecRecreate == InitRecreate /\ [][NextRecreate]_vars

\* C31: the flow bound to a live session never changes and its state record
\* is never reset: no step replaces the stored flow, removes the state
\* record or drops a key of its context.
C31_FlowAndStateKept ==
    [][/\ flowKey # "" => flowKey' = flowKey
       /\ state # Absent =>
             /\ state' # Absent
             /\ DOMAIN state[1].context \subseteq DOMAIN state'[1].context]_vars

\* C33: a tool action does not block the orchestrator: while a tool worker
\* started by an onEnter action is still running, the task that awaits it
\* does not hold the session lock.
C33_ToolWaitHoldsNoLock ==
    \A t \in Tasks :
        (At(t, "race") /\ tasks[Op(t).w].outcome = "running")
            => (tasks[t].lockValue = 0 \/ lock # tasks[t].lockValue)

(***************************************************************************)
(* SpecCrash: MaxCallers user inputs on a created session; a process may   *)
(* die while its withLock holds the lock, and the lock's PX lease then     *)
(* runs out.  Every awaited store command returns, so the steps of the     *)
(* callers are taken under weak fairness, and so is the expiry of a dead   *)
(* holder's lease; the race between a lease and a live holder is not.      *)
(***************************************************************************)
MaxCrashes == 1     \* holders that die between acquireLock and releaseLock

Crashed == {t \in Tasks : tasks[t].outcome = "crashed"}

\* The process of the holder dies inside the try block of withLock.
Crash(t) ==
    /\ Running(t)
    /\ tasks[t].lockValue = t
    /\ Cardinality(Crashed) < MaxCrashes
    /\ tasks' = [tasks EXCEPT ![t].todo = << >>, ![t].outcome = "crashed"]
    /\ UNCHANGED <<store, expiries, registry, observers>>

\* PX 10000: the key of a holder that will never release it expires.
LeaseExpireCrashed ==
    /\ lock \in Crashed
    /\ lock' = 0
    /\ UNCHANGED <<state, flowKey, seq, log, tasks, expiries, registry, observers>>

CallerSteps ==
    \/ \E t \in Tasks : AcquireLock(t)
    \/ \E t \in Tasks : ReleaseLock(t)
    \/ \E t \in Tasks : GetSessionState(t)
    \/ \E t \in Tasks : GetFlowConfig(t)
    \/ \E t \in Tasks : ClassifyIntent(t)
    \/ \E t \in Tasks : ReadForUpdate(t)
    \/ \E t \in Tasks : SetSessionState(t)

NextCrash ==
    \/ CallerSteps
    \/ LeaseExpire
    \/ LeaseExpireCrashed
    \/ \E t \in Tasks : Crash(t)

SpecCrash ==
    InitLease /\ [][NextCrash]_vars /\ WF_vars(CallerSteps) /\ WF_vars(LeaseExpireCrashed)

\* C34: the session lock is always eventually free: a caller whose function
\* returned or threw releases it, and the lock of a holder that died
\* without releasing is freed by the expiry of its lease.
C34_LockEventuallyFree == (lock # 0) ~> (lock = 0)

\* A holder died without releasing, and a later caller acquired the lock,
\* ran and released it.
C34_AcquiredAfterCrash ==
    /\ Crashed # {}
    /\ lock = 0
    /\ \E t \in Tasks : /\ tasks[t].outcome = "ok"
                        /\ tasks[t].lockValue = t
                        /\ tasks[t].released = "yes"

\* C38: once a tool call has been reported as tool.error because of a
\* timeout, a result produced afterwards is discarded: no tool.result for
\* that call id follows the tool.error in the log.
C38_LateResultDiscarded ==
    \A i, j \in DOMAIN log :
        (/\ i < j
         /\ log[i].type = "tool.error"
         /\ log[i].b = "timeout"
         /\ log[j].type = "tool.result")
            => log[j].a # log[i].a

(***************************************************************************)
(* SpecAfter: MaxInputs user inputs on a created session of the flow       *)
(* "after", tool T registered as a worker that returns or throws.          *)
(***************************************************************************)
AfterCreatedLog ==
    << [type |-> "fsm.transition", a |-> "P", b |-> "P", seq |-> 1, id |-> StreamId(1)],
       [type |-> "ask", a |-> "qP", b |-> "", seq |-> 2, id |-> StreamId(2)] >>

AfterTexts == {"go", "low", "chat"}

InitAfter ==
    /\ state = Some(InitialState("after"))
    /\ flowKey = "after"
    /\ seq = 2
    /\ log = AfterCreatedLog
    /\ lock = 0
    /\ \E texts \in [1..MaxInputs -> AfterTexts] :
         tasks = [i \in 1..MaxInputs |-> NewTask("input", ProcessUserInput(texts[i]))]
    /\ expiries = 0
    /\ registry = "function"
    /\ subs = {}
    /\ inbox = << >>
    /\ opc = << >>
    /\ NoFanout

SpecAfter == InitAfter /\ [][NextRoute]_vars

\* C37: every onEnter action that names a tool causes that tool to be
\* invoked when its state is entered: once the input that entered the state
\* is done, the log holds a tool.call for each tool action of the state
\* entered, with or without an args field.
C37_ToolActionsInvoked ==
    \A j \in DOMAIN log :
        (/\ log[j].type = "fsm.transition"
         /\ \A t \in Tasks : ~Running(t))
            => LET st == StatesLookup(flowKey, log[j].b)[1] IN
               st.onEnter # Absent =>
                  \A k \in 1..Len(st.onEnter[1]) :
                     st.onEnter[1][k].type = "tool"
                        => \E i \in DOMAIN log :
                              /\ i > j
                              /\ log[i].type = "tool.call"
                              /\ log[i].b = st.onEnter[1][k].val

\* C39: the onEnter actions that follow a tool action are still executed
\* once the tool call has returned (with a result or an error), even if the
\* result moved the session on: the say of Q is appended after the outcome
\* of the call and after the fsm.transition and onEnter events of Done, and
\* currentState is then Done, not Q.
C39_ActionsAfterToolRun ==
    /\ \A i \in DOMAIN log :
          (log[i].type = "say" /\ log[i].a = "late") =>
              /\ \E m \in 1..(i - 1) : log[m].type \in {"tool.result", "tool.error"}
              /\ \A k \in DOMAIN log :
                    (log[k].type = "fsm.transition" /\ log[k].b = "Done") =>
                        /\ k < i
                        /\ \E h \in (k + 1)..(i - 1) : log[h].type = "hangup"
                        /\ state[1].currentState = "Done"
    /\ (/\ \A t \in Tasks : ~Running(t)
        /\ \E j \in DOMAIN log : log[j].type = "fsm.transition" /\ log[j].b = "Q")
          => \E i \in DOMAIN log : log[i].type = "say" /\ log[i].a = "late"

\* The say of Q is in the log of a session that the tool result moved to Done.
C39_LateSayInDone ==
    /\ \E i \in DOMAIN log : log[i].type = "say" /\ log[i].a = "late"
    /\ \E k \in DOMAIN log : log[k].type = "fsm.transition" /\ log[k].b = "Done"
    /\ state[1].currentState = "Done"

(***************************************************************************)
(* SpecParty: the reservation flow in CollectPartySize (after BOOK), with  *)
(* MaxInputs user inputs.                                                  *)
(***************************************************************************)
PartyState ==
    [InitialState("reservation") EXCEPT !.currentState = "CollectPartySize",
                                        !.lastIntent = Some(Intent("table for two"))]

PartyLog ==
    << [type |-> "fsm.transition", a |-> "InitialGreeting", b |-> "InitialGreeting",
        seq |-> 1, id |-> StreamId(1)],
       [type |-> "say", a |-> "welcome", b |-> "", seq |-> 2, id |-> StreamId(2)],
       [type |-> "fsm.transition", a |-> "InitialGreeting", b |-> "CollectPartySize",
        seq |-> 3, id |-> StreamId(3)],
       [type |-> "ask", a |-> "how many", b |-> "", seq |-> 4, id |-> StreamId(4)] >>

PartyTexts == {"party of 8", "party of 9", "table for two", "chat"}

InitParty ==
    /\ state = Some(PartyState)
    /\ flowKey = "reservation"
    /\ seq = 4
    /\ log = PartyLog
    /\ lock = 0
    /\ \E texts \in [1..MaxInputs -> PartyTexts] :
         tasks = [i \in 1..MaxInputs |-> NewTask("input", ProcessUserInput(texts[i]))]
    /\ expiries = 0
    /\ registry = "safe"
    /\ subs = {}
    /\ inbox = << >>
    /\ opc = << >>
    /\ NoFanout

NextParty ==
    \/ \E t \in Tasks : AcquireLock(t)
    \/ \E t \in Tasks : ReleaseLock(t)
    \/ \E t \in Tasks : GetSessionState(t)
    \/ \E t \in Tasks : GetFlowConfig(t)
    \/ \E t \in Tasks : ClassifyIntent(t)
    \/ \E t \in Tasks : ReadForUpdate(t)
    \/ \E t \in Tasks : SetSessionState(t)
    \/ \E t \in Tasks : Incr(t)
    \/ \E t \in Tasks : XAdd(t)
    \/ \E t \in Tasks : Publish(t)
    \/ \E t \in Tasks : TimerFire(t)

SpecParty == InitParty /\ [][NextParty]_vars

\* C35: a PROVIDE_PARTY_SIZE intent handled in CollectPartySize leads to
\* TransferToManager exactly when the assigned partySize is greater than 8
\* and to CollectReservationDateTime otherwise; entering TransferToManager
\* emits say and then transfer to +15551234567, and there is no tool.call
\* on the way.
C35_PartySizeRoutes ==
    /\ \A j \in DOMAIN log :
          (log[j].type = "fsm.transition" /\ log[j].a = "CollectPartySize") =>
              /\ \E u \in 1..(j - 1) :
                    /\ log[u].type = "state.updated"
                    /\ "partySize" \in DOMAIN log[u].a
                    /\ log[j].b = IF log[u].a["partySize"] > 8
                                  THEN "TransferToManager"
                                  ELSE "CollectReservationDateTime"
              /\ \A i \in 1..j : log[i].type # "tool.call"
    /\ \A i \in DOMAIN log :
          log[i].type = "transfer" =>
              /\ log[i].a = "+15551234567"
              /\ \E j \in 1..(i - 1) :
                    /\ log[j].type = "fsm.transition" /\ log[j].b = "TransferToManager"
                    /\ \E k \in (j + 1)..(i - 1) :
                          log[k].type = "say" /\ log[k].a = "manager"
    /\ (\A t \in Tasks : ~Running(t)) =>
          /\ (\E u \in DOMAIN log : log[u].type = "state.updated")
                => state[1].currentState \in {"TransferToManager",
                                               "CollectReservationDateTime"}
          /\ state[1].currentState = "TransferToManager"
                => \E i \in DOMAIN log : log[i].type = "transfer"

\* A party of 9 has been transferred to the manager.
C35_Transferred ==
    /\ state[1].currentState = "TransferToManager"
    /\ state[1].context["partySize"] = 9
    /\ \E i \in DOMAIN log : log[i].type = "transfer"

(***************************************************************************)
(* SpecBooking: the reservation flow in CollectReservationDateTime (party  *)
(* of 8) or in CollectContactInformation, with the reservation workers,    *)
(* which return their result after 500 ms and 800 ms, well inside the      *)
(* tools' timeouts.  The client posts up to MaxTurns inputs, each after    *)
(* the answer to the one before, as testFSMSystem does.                    *)
(***************************************************************************)
MaxTurns == 2       \* inputs the client posts one after the other

BookingState ==
    [InitialState("reservation") EXCEPT !.currentState = "CollectReservationDateTime",
                                        !.context = ("partySize" :> 8),
                                        !.lastIntent = Some(Intent("party of 8"))]

BookingLog ==
    PartyLog \o
    << [type |-> "state.updated", a |-> ("partySize" :> 8), b |-> "", seq |-> 5,
        id |-> StreamId(5)],
       [type |-> "fsm.transition", a |-> "CollectPartySize",
        b |-> "CollectReservationDateTime", seq |-> 6, id |-> StreamId(6)],
       [type |-> "ask", a |-> "when", b |-> "", seq |-> 7, id |-> StreamId(7)] >>

\* The session after "tomorrow at 7" and a CheckAvailability result {ok: true}
\* (tool call <<0, 1>>): it is in CollectContactInformation.
ContactState ==
    [BookingState EXCEPT
        !.currentState = "CollectContactInformation",
        !.context = ("partySize" :> 8) @@ ("date" :> 20) @@ ("time" :> 19),
        !.lastIntent = Some(Intent("tomorrow at 7")),
        !.lastToolCall = Some([id |-> <<0, 1>>, name |-> "CheckAvailability"]),
        !.lastToolResult = Some([callId |-> <<0, 1>>, result |-> "ok"])]

ContactLog ==
    BookingLog \o
    << [type |-> "state.updated",
        a |-> ("partySize" :> 8) @@ ("date" :> 20) @@ ("time" :> 19), b |-> "",
        seq |-> 8, id |-> StreamId(8)],
       [type |-> "fsm.transition", a |-> "CollectReservationDateTime",
        b |-> "ConfirmAvailability", seq |-> 9, id |-> StreamId(9)],
       [type |-> "tool.call", a |-> <<0, 1>>, b |-> "CheckAvailability", seq |-> 10,
        id |-> StreamId(10)],
       [type |-> "tool.result", a |-> <<0, 1>>, b |-> "ok", seq |-> 11,
        id |-> StreamId(11)],
       [type |-> "fsm.transition", a |-> "ConfirmAvailability",
        b |-> "CollectContactInformation", seq |-> 12, id |-> StreamId(12)],
       [type |-> "ask", a |-> "contact", b |-> "", seq |-> 13, id |-> StreamId(13)] >>

BookingTexts == {"tomorrow at 7", "Ana, 555"}

\* await orchestrator.processUserInput(sessionId, text), after the one before
\* has been answered.
PostTurn ==
    /\ \A t \in Inputs : ~Running(t)
    /\ Cardinality(Inputs) < MaxTurns
    /\ \E text \in BookingTexts :
         tasks' = Append(tasks, NewTask("input", ProcessUserInput(text)))
    /\ UNCHANGED <<store, expiries, registry, observers>>

InitBooking ==
    /\ \/ state = Some(BookingState) /\ log = BookingLog
       \/ state = Some(ContactState) /\ log = ContactLog
    /\ flowKey = "reservation"
    /\ seq = Len(log)
    /\ lock = 0
    /\ tasks = << >>
    /\ expiries = 0
    /\ registry = "function"
    /\ subs = {}
    /\ inbox = << >>
    /\ opc = << >>
    /\ NoFanout

NextBooking ==
    \/ PostTurn
    \/ \E t \in Tasks : AcquireLock(t)
    \/ \E t \in Tasks : ReleaseLock(t)
    \/ \E t \in Tasks : GetSessionState(t)
    \/ \E t \in Tasks : GetFlowConfig(t)
    \/ \E t \in Tasks : ClassifyIntent(t)
    \/ \E t \in Tasks : ReadForUpdate(t)
    \/ \E t \in Tasks : SetSessionState(t)
    \/ \E t \in Tasks : Incr(t)
    \/ \E t \in Tasks : XAdd(t)
    \/ \E t \in Tasks : Publish(t)
    \/ \E t \in Tasks : TimerFire(t)
    \/ \E t \in Tasks : WorkerReturn(t)
    \/ \E t \in Tasks : WorkerReturnsNo(t)
    \/ \E t \in Tasks : AwaitWorker(t)

SpecBooking == InitBooking /\ [][NextBooking]_vars

\* C36: a CheckAvailability result with ok = true moves the session from
\* ConfirmAvailability to CollectContactInformation and one with ok = false
\* to AltDateTime, from which PROVIDE_DATETIME returns to
\* ConfirmAvailability with a new CheckAvailability call; Goodbye is entered
\* only after a tool.result of CreateReservation; and a run that reaches
\* Goodbye with the first availability check succeeding has exactly two
\* tool.call events and ends with hangup.
C36_BookingRuns ==
    /\ \A j \in DOMAIN log :
          (log[j].type = "fsm.transition" /\ log[j].a = "ConfirmAvailability") =>
              \E r \in 1..(j - 1) :
                 /\ log[r].type = "tool.result"
                 /\ \A m \in (r + 1)..(j - 1) : log[m].type # "tool.result"
                 /\ log[j].b = IF log[r].b = "ok" THEN "CollectContactInformation"
                               ELSE "AltDateTime"
    /\ \A j \in DOMAIN log :
          (log[j].type = "fsm.transition" /\ log[j].a = "AltDateTime") =>
              log[j].b = "ConfirmAvailability"
    /\ \A j \in DOMAIN log :
          (log[j].type = "fsm.transition" /\ log[j].b = "Goodbye") =>
              \E r \in 1..(j - 1) :
                 /\ log[r].type = "tool.result"
                 /\ \E c \in 1..(r - 1) :
                       /\ log[c].type = "tool.call"
                       /\ log[c].a = log[r].a
                       /\ log[c].b = "CreateReservation"
    /\ (/\ \A t \in Tasks : ~Running(t)
        /\ state[1].currentState = "Goodbye")
          => /\ Cardinality({c \in DOMAIN log : log[c].type = "tool.call"}) = 2
             /\ log[Len(log)].type = "hangup"

\* C32: updateContext deep-merges the patch into the context: an assign key
\* written as a dotted path (contact.name, contact.phone) ends up as nested
\* fields of one object contact, so neither the stored context nor the
\* context carried by state.updated has a top-level key containing a dot.
C32_DottedKeysNested ==
    /\ state # Absent
          => DOMAIN state[1].context \cap {"contact.name", "contact.phone"} = {}
    /\ \A i \in DOMAIN log :
          log[i].type = "state.updated"
              => DOMAIN log[i].a \cap {"contact.name", "contact.phone"} = {}

(***************************************************************************)
(* SpecStuck: the reservation flow in ConfirmAvailability after the        *)
(* CheckAvailability call <<0, 1>> ended in tool.error, with MaxCallers    *)
(* user inputs.                                                            *)
(***************************************************************************)
StuckState ==
    [ContactState EXCEPT !.currentState = "ConfirmAvailability",
                         !.lastToolResult = Absent]

StuckLog ==
    SubSeq(ContactLog, 1, 10) \o
    << [type |-> "tool.error", a |-> <<0, 1>>, b |-> "error", seq |-> 11,
        id |-> StreamId(11)] >>

StuckTexts == {"tomorrow at 7", "Ana, 555", "table for two", "chat"}

InitStuck ==
    /\ state = Some(StuckState)
    /\ flowKey = "reservation"
    /\ seq = 11
    /\ log = StuckLog
    /\ lock = 0
    /\ \E texts \in [1..MaxCallers -> StuckTexts] :
         tasks = [i \in 1..MaxCallers |-> NewTask("input", ProcessUserInput(texts[i]))]
    /\ expiries = 0
    /\ registry = "function"
    /\ subs = {}
    /\ inbox = << >>
    /\ opc = << >>
    /\ NoFanout

SpecStuck == InitStuck /\ [][NextParty]_vars

\* C40: after a tool.error in a state all of whose transitions are
\* tool-result-driven, no later processUserInput changes currentState or
\* issues a tool.call: each processed input only emits intent.unhandled, and
\* no re-prompt (say or ask) is emitted because the state has no ask action.
C40_StuckAfterToolError ==
    /\ state[1].currentState = "ConfirmAvailability"
    /\ state[1].context = StuckState.context
    /\ state[1].lastToolCall = StuckState.lastToolCall
    /\ state[1].lastToolResult = Absent
    /\ \A i \in (Len(StuckLog) + 1)..Len(log) :
          /\ log[i].type = "intent.unhandled"
          /\ log[i].b = "ConfirmAvailability"
    /\ (\A t \in Tasks : ~Running(t)) =>
          Len(log) - Len(StuckLog)
             = Cardinality({t \in Inputs : tasks[t].lockValue = t})

\* Every task is done and an input was answered with intent.unhandled.
C40_InputUnhandled ==
    /\ \A t \in Tasks : ~Running(t)
    /\ Len(log) > Len(StuckLog)
    /\ log[Len(log)].type = "intent.unhandled"
    /\ \E t \in Tasks : tasks[t].kind = "timer"

====
